---- MODULE Spec2Model ----
(***************************************************************************)
(* Verification model of the per-site scraper scripts of scrapper2project.  *)
(*                                                                          *)
(* Part 1 (specification Spec): one scraper script run repeatedly over      *)
(* input URL lists against its output JSONL file: resume scan, dispatch,    *)
(* concurrent fetch units, the collecting loop of main and the append.      *)
(* The scripts differ in their main(); each variant is modelled from its    *)
(* own source:                                                              *)
(*   "adventurousmiriam"   process pool, resume scan (also afamilyfeast,    *)
(*                         aglugofoil, africanbites: the same main)         *)
(*   "afrovitalityeats"    process pool, resume scan catching TypeError     *)
(*   "ayurvedichealing"    sequential loop, no resume scan                  *)
(*   "bakefromscratch"     thread pool, no resume scan (also bakeplaysmile, *)
(*                         bakingbar)                                       *)
(*   "addicted2decorating" thread pool, lock, output opened with "w"        *)
(*   "acozy"               asyncio queue worker, lock, one fixed URL        *)
(*                                                                          *)
(* Part 2 (specification SpecText): the text functions (normalizer,         *)
(* anonymizer, cleaners) applied to bounded texts and to values that are    *)
(* not strings.                                                             *)
(*                                                                          *)
(* Part 3 (specification SpecAsm): the assembly of the record from a page:  *)
(* cleaning, length gate, Text, content and ID.                             *)
(*                                                                          *)
(* Part 4 (specification SpecLinks): the resumable link collector of        *)
(* architecturaldigest.com/extract.py, interrupted and started again.       *)
(*                                                                          *)
(* Part 5 (specification SpecPar): the parallel category link collector of  *)
(* africanbites.com/extract.py and its shared links file.                   *)
(*                                                                          *)
(* Part 6 (specification SpecClean): the image-cleaning pass of             *)
(* acozy/clean_image.py over the lines of its input file.                   *)
(***************************************************************************)
EXTENDS Integers, Sequences, FiniteSets, TLC

\* ------------------------------------------------------------------ bounds
\* longest input URL list of a run
MaxUrls == 2
\* fetch units dispatched in one behaviour, over all its runs
MaxFetches == 4

\* pieces an input text of the text functions is built from
MaxPieces == 3

\* paragraphs and figures of a page body
MaxParts == 2
\* characters of the long paragraph
FillerLen == 198

\* ------------------------------------------------------------- the scripts
Scripts == {"adventurousmiriam", "afrovitalityeats", "ayurvedichealing",
            "bakefromscratch", "addicted2decorating", "acozy"}

URLS == {"u1", "u2"}

\* acozy_test.py scrapes one fixed URL
SINGLE_ARTICLE_URL == "u1"

\* acozy_test.py: number of worker coroutines
CONCURRENT_WORKERS == 1

\* acozy_test.py: minimum character count
MIN_CHAR_COUNT == 200

\* main() begins with a scan of the existing output file
HasResume(s) == s \in {"adventurousmiriam", "afrovitalityeats", "acozy"}

\* the mode the output file is opened with for writing
OpenMode(s) == IF s = "addicted2decorating" THEN "w" ELSE "a"

\* the append is wrapped in a lock
UsesLock(s) == s \in {"addicted2decorating", "acozy"}

\* ------------------------------------------------------- output file lines
\* A line of the output file, by what json.loads and the lookup
\* data['meta']['data_info']['url'] make of it.
MalformedKinds == {"notjson", "nonobj", "nometa", "metanonobj",
                   "nodatainfo", "datainfononobj", "nourl"}

RecordLine(u) == [kind |-> "rec", url |-> u]

Lines == {[kind |-> k, url |-> "-"] : k \in MalformedKinds}
           \cup {RecordLine(u) : u \in URLS}

\* The exception (or "none") that reading the url of a line raises:
\* subscripting for the pool scripts, the .get chain for acozy.
LookupRaises(s, line) ==
    IF line.kind = "notjson" THEN "JSONDecodeError"
    ELSE IF s = "acozy"
      THEN IF line.kind \in {"nonobj", "metanonobj", "datainfononobj"}
             THEN "AttributeError" ELSE "none"
      ELSE IF line.kind \in {"nonobj", "metanonobj", "datainfononobj"}
             THEN "TypeError"
           ELSE IF line.kind \in {"nometa", "nodatainfo", "nourl"}
             THEN "KeyError" ELSE "none"

\* the except clause around the lookup
ScanCatches(s) ==
    IF s = "afrovitalityeats"
      THEN {"JSONDecodeError", "KeyError", "TypeError"}
      ELSE {"JSONDecodeError", "KeyError"}

\* what the scan does with one line: "add" its url, "skip" it, or "raise"
ScanLine(s, line) ==
    LET e == LookupRaises(s, line) IN
    IF e = "none"
      THEN (IF line.kind = "rec" THEN "add" ELSE "skip")
      ELSE IF e \in ScanCatches(s) THEN "skip" ELSE "raise"

\* ------------------------------------------------------------------- pages
\* the minimum-length threshold of parse_html_content / scrape_article
min_length(s, recipe) ==
    IF s = "afrovitalityeats" THEN (IF recipe THEN 100 ELSE 150)
    ELSE IF s = "acozy" THEN MIN_CHAR_COUNT
    ELSE 200

\* the gate: the measured length is below the threshold
TooShortMutant(n, t) == n <= t
TooShort(n, t) == n < t

\* a page without the article container (and the page of a unit that has
\* fetched none)
NoPage == [struct |-> FALSE, missing |-> "container", recipe |-> FALSE,
           len |-> 0]

\* a page without the content element
NoContent == [NoPage EXCEPT !.missing = "content"]

\* a page made like p, except that it has no title element
Untitled(p) == [p EXCEPT !.struct = FALSE, !.missing = "title"]

\* the pages with the expected structure: their measured content length is
\* just below or at the threshold
FullPages(s) ==
    UNION {{[struct |-> TRUE, missing |-> "none", recipe |-> r, len |-> n] :
               n \in {min_length(s, r) - 1, min_length(s, r)}} :
           r \in (IF s = "afrovitalityeats" THEN BOOLEAN ELSE {FALSE})}

\* What a fetch can bring back: a page without the article container, the
\* title element or the content element, or a page with all of them.
Pages(s) ==
    {NoPage, NoContent} \cup {Untitled(p) : p \in FullPages(s)}
        \cup FullPages(s)

\* a missing title element is replaced by a fixed title ("No Title Found",
\* "Untitled Article")
DefaultsTitle(s) == s \in {"acozy", "addicted2decorating"}

\* the page has what the parser needs to go on to the length gate
Parsable(s, page) ==
    page.struct \/ (page.missing = "title" /\ DefaultsTitle(s))

\* parse_html_content: "none" or "rec"
ParseResult(s, page) ==
    IF ~Parsable(s, page) THEN "none"
    ELSE IF TooShort(page.len, min_length(s, page.recipe)) THEN "none"
    ELSE "rec"

\* The fetch unit lets an exception escape to the future (TRUE) or turns it
\* into a None result (FALSE).
TaskPropagates(s) == s \in {"adventurousmiriam", "bakefromscratch"}

\* ------------------------------------------------- browser pages of a unit
\* the fetch unit drives a browser (Playwright); the others use requests
UsesBrowser(s) == s \in {"adventurousmiriam", "afrovitalityeats", "acozy"}

\* page.close(), browser.close(): resource r is no longer open
ClosedMutant(open, r) == open
Closed(open, r) == open \ {r}

\* the finally clause of scrape_url_task: page.close(), then
\* browser.close(); when page.close() raises, browser.close() is not reached
FinallyClose(open, closeRaises) ==
    IF closeRaises THEN open ELSE Closed(Closed(open, "page"), "browser")

\* leaving the block of "with sync_playwright()" stops the Playwright
\* driver, and with it every browser it launched
WithExit(open) == {}

\* where scrape_url_task can raise outside its try block: in
\* chromium.launch, in browser.new_page, in page.close of the finally clause
OutsideTry == {"launch", "new_page", "close"}

\* what a unit still holds open when it ends, by the place it ends at
\* ("body": inside the try block, by a return or by an exception)
OpenAtEnd(s, path) ==
    IF ~UsesBrowser(s) THEN {}
    ELSE WithExit(CASE path = "launch" -> {}
                    [] path = "new_page" -> {"browser"}
                    [] path = "body" ->
                          FinallyClose({"browser", "page"}, FALSE)
                    [] path = "close" ->
                          FinallyClose({"browser", "page"}, TRUE))

VARIABLES
    script,          \* the script of this behaviour
    fetched,         \* fetch units dispatched so far, over all runs
    pc,              \* position of main()
    inputFile,       \* the input URL file of the current run
    outExists,       \* the output file exists
    outFile,         \* its lines
    outAtStart,      \* the output file when the current run started
    scraped_urls,    \* the resume set
    scanPos,         \* next line of the resume scan
    urls_to_scrape,  \* the dispatched URLs, in submission order
    task,            \* the fetch units of the run, by index
    cur,             \* the future main() is handling (0: none)
    inAppend,        \* units inside the append-to-output operation
    lock,            \* holder of the write lock (0: free)
    cnt,             \* scraped/skipped/error counters of the run
    worker,          \* acozy: the worker coroutines
    unsaved,         \* history: URLs whose last processing, in an earlier
                     \* run, ended in skip or error
    txt,             \* text functions: the input text
    op,              \* the text function applied to it
    out1,            \* its result
    out2,            \* the result of applying it to its own output
    tpc,             \* "off", "input", "once", "twice"
    arg,             \* "str": the input is txt; else the non-string passed
    html,            \* record assembly: the fetched page
    asm,             \* what the assembly made of it
    resume,          \* the resumable link collector and its two files
    par,             \* the parallel category link collector and its file
    clean            \* the image-cleaning pass and its two files

pvars == <<script, fetched, pc, inputFile, outExists, outFile, outAtStart,
           scraped_urls, scanPos, urls_to_scrape, task, cur, inAppend,
           lock, cnt, worker, unsaved>>

tvars == <<txt, op, out1, out2, tpc, arg>>

avars == <<html, asm>>

xvars == <<resume, par, clean>>

vars == <<pvars, tvars, avars, xvars>>

NoInput == [exists |-> FALSE, urls |-> <<>>]

SeqsUpTo(S, n) == UNION {[1..k -> S] : k \in 0..n}

\* acozy_test.py reads no input file
InputFiles(s) ==
    IF s = "acozy" THEN {NoInput}
    ELSE {NoInput} \cup {[exists |-> TRUE, urls |-> q] : q \in SeqsUpTo(URLS, MaxUrls)}

\* the output file before the first run: absent, empty or one line
InitFiles == {<<>>} \cup {<<l>> : l \in Lines}

ZeroCnt == [scraped |-> 0, skipped |-> 0, errors |-> 0]

\* acozy: every worker waits on the queue
IdleWorkers == [w \in 1..CONCURRENT_WORKERS |-> [st |-> "idle", item |-> 0]]

Range(q) == {q[i] : i \in DOMAIN q}

\* the enumerations of a set as a list (list(set) has no fixed order)
ListsOf(S) == {q \in [1..Cardinality(S) -> S] : Range(q) = S}

\* no text function has been applied
NoResult == [ok |-> TRUE, text |-> <<>>]

\* the text functions are not in use
TextOff ==
    /\ txt = <<>>
    /\ op = "none"
    /\ out1 = NoResult
    /\ out2 = NoResult
    /\ tpc = "off"
    /\ arg = "str"

\* no run has started
RunIdle ==
    /\ fetched = 0
    /\ pc = "idle"
    /\ inputFile = NoInput
    /\ outAtStart = outFile
    /\ scraped_urls = {}
    /\ scanPos = 1
    /\ urls_to_scrape = <<>>
    /\ task = <<>>
    /\ cur = 0
    /\ inAppend = {}
    /\ lock = 0
    /\ cnt = ZeroCnt
    /\ worker = IdleWorkers
    /\ unsaved = {}

\* no page is being assembled
NoAsmPage == [url |-> "-", title |-> <<>>, parts |-> <<>>]

NoAsm == [kind |-> "off"]

AsmOff ==
    /\ html = NoAsmPage
    /\ asm = NoAsm

\* no link collector, no cleaning pass is running
Off == [pc |-> "off"]

ToolsOff ==
    /\ resume = Off
    /\ par = Off
    /\ clean = Off

Init ==
    /\ script \in Scripts
    /\ outExists \in BOOLEAN
    /\ outFile \in (IF outExists THEN InitFiles ELSE {<<>>})
    /\ RunIdle
    /\ TextOff
    /\ AsmOff
    /\ ToolsOff

\* ------------------------------------------------------------------ main()
\* the URLs of the units of a run whose record was written
SavedUrls(t) == {t[i].url : i \in {j \in DOMAIN t : t[j].res = "saved"}}

\* the URLs of the units of a run that ended in skip or error
FailedUrls(t) ==
    {t[i].url : i \in {j \in DOMAIN t : /\ t[j].st = "consumed"
                                         /\ t[j].res \in {"none", "failed"}}}

\* the history after a run with units t
UnsavedAfter(prev, t) == (prev \ SavedUrls(t)) \cup FailedUrls(t)

\* The script is started on some input file.
StartRun ==
    /\ pc \in {"idle", "done", "scan_crashed", "write_crashed"}
    /\ inputFile' \in InputFiles(script)
    /\ Len(inputFile'.urls) <= MaxFetches - fetched
    /\ script = "acozy" => fetched < MaxFetches
    /\ UNCHANGED fetched
    /\ outAtStart' = outFile
    /\ scraped_urls' = {}
    /\ scanPos' = 1
    /\ urls_to_scrape' = <<>>
    /\ task' = <<>>
    /\ cur' = 0
    /\ inAppend' = {}
    /\ lock' = 0
    /\ cnt' = ZeroCnt
    /\ worker' = IdleWorkers
    /\ pc' = IF HasResume(script) THEN "scan" ELSE "read"
    /\ unsaved' = UnsavedAfter(unsaved, task)
    /\ UNCHANGED <<script, outExists, outFile, tvars, avars, xvars>>

\* One step of the resume scan: the next line of the output file.
ScanStep ==
    /\ pc = "scan"
    /\ outExists /\ scanPos <= Len(outFile)
    /\ LET r == ScanLine(script, outFile[scanPos]) IN
         /\ scraped_urls' = IF r = "add"
                              THEN scraped_urls \cup {outFile[scanPos].url}
                              ELSE scraped_urls
         /\ pc' = IF r = "raise" THEN "scan_crashed" ELSE "scan"
    /\ scanPos' = scanPos + 1
    /\ UNCHANGED <<script, unsaved, fetched, inputFile, outExists, outFile, outAtStart,
                   urls_to_scrape, task, cur, inAppend, lock, cnt, worker, tvars, avars, xvars>>

\* The scan ends: no output file (FileNotFoundError) or no line left.
ScanEnd ==
    /\ pc = "scan"
    /\ (~outExists \/ scanPos > Len(outFile))
    /\ pc' = "read"
    /\ UNCHANGED <<script, unsaved, fetched, inputFile, outExists, outFile, outAtStart,
                   scraped_urls, scanPos, urls_to_scrape, task, cur,
                   inAppend, lock, cnt, worker, tvars, avars, xvars>>

\* the candidate URLs of the input file
Candidates(s, f) ==
    IF s = "acozy" THEN {SINGLE_ARTICLE_URL} ELSE Range(f.urls)

\* the lists main() may dispatch, given the input file and the resume set
DispatchListsMutant(s, f, seen) == {<<>>}
DispatchLists(s, f, seen) ==
    IF HasResume(s) THEN ListsOf(Candidates(s, f) \ seen) ELSE {f.urls}

\* main() reads the input file and computes the URLs to scrape; a missing
\* input file or nothing to do ends the run.
ReadInput ==
    /\ pc = "read"
    /\ IF script # "acozy" /\ ~inputFile.exists
         THEN /\ pc' = "done"
              /\ UNCHANGED urls_to_scrape
         ELSE \E q \in DispatchLists(script, inputFile, scraped_urls) :
                /\ urls_to_scrape' = q
                /\ pc' = IF q = <<>> /\ (HasResume(script)
                                          \/ script = "addicted2decorating")
                           THEN "done" ELSE "dispatch"
    /\ UNCHANGED <<script, unsaved, fetched, inputFile, outExists, outFile, outAtStart,
                   scraped_urls, scanPos, task, cur, inAppend, lock, cnt, worker, tvars, avars, xvars>>

NewTask(u) == [url |-> u, st |-> "pending", res |-> "none", page |-> NoPage,
               open |-> {}]

\* the output file as the open for writing leaves it
Opened(s, f) == IF OpenMode(s) = "w" THEN <<>> ELSE f

\* main() opens the output file itself (the pool scripts); in acozy each
\* write opens it.
OpensAtDispatch(s) == s # "acozy"

\* main() opens the output file for writing and submits one unit per URL.
Dispatch ==
    /\ pc = "dispatch"
    /\ task' = [i \in 1..Len(urls_to_scrape) |-> NewTask(urls_to_scrape[i])]
    /\ outExists' = (outExists \/ OpensAtDispatch(script))
    /\ outFile' = IF OpensAtDispatch(script) THEN Opened(script, outFile)
                  ELSE outFile
    /\ pc' = "collect"
    /\ fetched' = fetched + Len(urls_to_scrape)
    /\ UNCHANGED <<script, unsaved, inputFile, outAtStart, scraped_urls, scanPos,
                   urls_to_scrape, cur, inAppend, lock, cnt, worker, tvars, avars, xvars>>

\* ------------------------------------------------------------- fetch units
\* A unit may run: any pending unit of a pool; in the sequential script
\* the next one, called from the loop of main().
MayRun(s, i) ==
    IF s = "ayurvedichealing" THEN cur = 0 /\ \A j \in 1..(i-1) : task[j].st = "consumed"
    ELSE TRUE

\* the state a unit ends in for a fetch outcome
Finished(s, t, exc, page) ==
    IF exc
      THEN [t EXCEPT !.st = IF TaskPropagates(s) THEN "raised" ELSE "returned",
                     !.res = "none", !.open = OpenAtEnd(s, "body")]
      ELSE [t EXCEPT !.st = "returned", !.res = ParseResult(s, page),
                     !.page = page, !.open = OpenAtEnd(s, "body")]

\* the state a unit ends in when it raises outside its try block: the
\* exception reaches the future
Escaped(s, t, path) ==
    [t EXCEPT !.st = "raised", !.res = "none", !.open = OpenAtEnd(s, path)]

\* A unit fetches and parses its URL: an exception, or a page; with a
\* browser, the exception may come from outside the try block.
TaskRun(i) ==
    /\ pc = "collect"
    /\ script # "acozy"
    /\ task[i].st = "pending"
    /\ MayRun(script, i)
    /\ \/ task' = [task EXCEPT ![i] = Finished(script, @, TRUE, NoPage)]
       \/ \E p \in Pages(script) :
            task' = [task EXCEPT ![i] = Finished(script, @, FALSE, p)]
       \/ /\ UsesBrowser(script)
          /\ \E path \in OutsideTry :
                task' = [task EXCEPT ![i] = Escaped(script, @, path)]
    /\ UNCHANGED <<script, unsaved, fetched, pc, inputFile, outExists, outFile, outAtStart,
                   scraped_urls, scanPos, urls_to_scrape, cur, inAppend,
                   lock, cnt, worker, tvars, avars, xvars>>

\* ------------------------------------------------------ the collecting loop
\* main() is between two iterations of its loop over completed futures
MainIdleMutant == TRUE
MainIdle == cur = 0

\* the loop takes a completed future
Collect(i) ==
    /\ pc = "collect"
    /\ script # "acozy"
    /\ MainIdle
    /\ task[i].st \in {"returned", "raised"}
    /\ cur' = i
    /\ UNCHANGED <<script, unsaved, fetched, pc, inputFile, outExists, outFile, outAtStart,
                   scraped_urls, scanPos, urls_to_scrape, task, inAppend,
                   lock, cnt, worker, tvars, avars, xvars>>

\* the scripts whose summary reports saved, skipped and error counts
\* (addicted2decorating reports skipped and errors as one count, failed;
\* main() of alexandracooks is that of afrovitalityeats)
ReportsCounts(s) == s \in {"afrovitalityeats", "addicted2decorating"}

\* scraped_count += 1, skipped_count += 1, error_count += 1
CountedMutant(c, k) == c
Counted(c, k) == [c EXCEPT ![k] = @ + 1]

\* future.result() raised: counted as an error
HandleError ==
    /\ pc = "collect" /\ cur # 0 /\ script # "acozy"
    /\ task[cur].st = "raised"
    /\ task' = [task EXCEPT ![cur].st = "consumed", ![cur].page = NoPage]
    /\ cnt' = Counted(cnt, "errors")
    /\ cur' = 0
    /\ UNCHANGED <<script, unsaved, fetched, pc, inputFile, outExists, outFile, outAtStart,
                   scraped_urls, scanPos, urls_to_scrape, inAppend, lock, worker, tvars, avars, xvars>>

\* no article data: skipped
HandleSkip ==
    /\ pc = "collect" /\ cur # 0 /\ script # "acozy"
    /\ task[cur].st = "returned" /\ task[cur].res = "none"
    /\ task' = [task EXCEPT ![cur].st = "consumed", ![cur].page = NoPage]
    /\ cnt' = Counted(cnt, "skipped")
    /\ cur' = 0
    /\ UNCHANGED <<script, unsaved, fetched, pc, inputFile, outExists, outFile, outAtStart,
                   scraped_urls, scanPos, urls_to_scrape, inAppend, lock, worker, tvars, avars, xvars>>

\* the write of the record of future cur begins (the lock is taken)
BeginWrite ==
    /\ pc = "collect" /\ cur # 0 /\ script # "acozy"
    /\ task[cur].st = "returned" /\ task[cur].res = "rec"
    /\ UsesLock(script) => lock = 0
    /\ lock' = IF UsesLock(script) THEN cur ELSE lock
    /\ task' = [task EXCEPT ![cur].st = "writing"]
    /\ inAppend' = inAppend \cup {cur}
    /\ UNCHANGED <<script, unsaved, fetched, pc, inputFile, outExists, outFile, outAtStart,
                   scraped_urls, scanPos, urls_to_scrape, cur, cnt, worker, tvars, avars, xvars>>

\* A failed write is caught by the loop (TRUE) or leaves main() (FALSE).
WriteGuarded(s) == s # "ayurvedichealing"

\* the file after the record of u has been written
AppendedMutant(f, u) == f
Appended(f, u) == Append(f, RecordLine(u))

\* the write ends: the line is in the file, or the write raised
EndWrite ==
    /\ pc = "collect" /\ cur # 0 /\ script # "acozy"
    /\ cur \in inAppend
    /\ task[cur].st = "writing"
    /\ inAppend' = inAppend \ {cur}
    /\ lock' = IF UsesLock(script) THEN 0 ELSE lock
    /\ \/ /\ outFile' = Appended(outFile, task[cur].url)
          /\ task' = [task EXCEPT ![cur].st = "consumed", ![cur].res = "saved",
                                 ![cur].page = NoPage]
          /\ cnt' = Counted(cnt, "scraped")
          /\ cur' = 0
          /\ pc' = pc
       \/ /\ outFile' = outFile
          /\ task' = [task EXCEPT ![cur].st = "consumed", ![cur].res = "failed",
                                 ![cur].page = NoPage]
          /\ IF WriteGuarded(script)
               THEN /\ cnt' = Counted(cnt, "errors")
                    /\ cur' = 0
                    /\ pc' = pc
               ELSE /\ cnt' = cnt
                    /\ cur' = 0
                    /\ pc' = "write_crashed"
    /\ UNCHANGED <<script, unsaved, fetched, inputFile, outExists, outAtStart,
                   scraped_urls, scanPos, urls_to_scrape, worker, tvars, avars, xvars>>

\* every future has been handled: the summary is printed
Finish ==
    /\ pc = "collect" /\ cur = 0 /\ script # "acozy"
    /\ \A i \in DOMAIN task : task[i].st = "consumed"
    /\ pc' = "done"
    /\ UNCHANGED <<script, unsaved, fetched, inputFile, outExists, outFile, outAtStart,
                   scraped_urls, scanPos, urls_to_scrape, task, cur, inAppend,
                   lock, cnt, worker, tvars, avars, xvars>>

\* ----------------------------------------------------------- acozy worker
\* the item queue.get() hands out: the first one still queued
QueueHead == CHOOSE i \in DOMAIN task :
                 /\ task[i].st = "pending"
                 /\ \A j \in 1..(i-1) : task[j].st # "pending"

\* worker: url = await queue.get()
AcozyGet(w) ==
    /\ pc = "collect" /\ script = "acozy"
    /\ worker[w].st = "idle"
    /\ \E i \in DOMAIN task : task[i].st = "pending"
    /\ worker' = [worker EXCEPT ![w] = [st |-> "got", item |-> QueueHead]]
    /\ task' = [task EXCEPT ![QueueHead].st = "taken"]
    /\ UNCHANGED <<script, unsaved, fetched, pc, inputFile, outExists, outFile,
                   outAtStart, scraped_urls, scanPos, urls_to_scrape, cur,
                   inAppend, lock, cnt, tvars, avars, xvars>>

\* worker: page = await context.new_page(), outside the try: when it
\* raises the worker ends and the item is never marked done.
AcozyNewPage(w) ==
    /\ pc = "collect" /\ script = "acozy"
    /\ worker[w].st = "got"
    /\ \/ /\ worker' = [worker EXCEPT ![w].st = "page"]
          /\ task' = [task EXCEPT ![worker[w].item].open = {"page"}]
       \/ /\ worker' = [worker EXCEPT ![w].st = "dead"]
          /\ task' = [task EXCEPT ![worker[w].item].st = "lost"]
    /\ UNCHANGED <<script, unsaved, fetched, pc, inputFile, outExists, outFile,
                   outAtStart, scraped_urls, scanPos, urls_to_scrape, cur,
                   inAppend, lock, cnt, tvars, avars, xvars>>

\* worker: await page.route(...), inside try/finally: when it raises the
\* page is closed, the item is marked done and the worker ends.
AcozyRoute(w) ==
    /\ pc = "collect" /\ script = "acozy"
    /\ worker[w].st = "page"
    /\ \/ /\ worker' = [worker EXCEPT ![w].st = "scraping"]
          /\ task' = task
       \/ /\ worker' = [worker EXCEPT ![w].st = "dead"]
          /\ task' = [task EXCEPT ![worker[w].item].st = "consumed",
                                  ![worker[w].item].open = Closed(@, "page")]
    /\ UNCHANGED <<script, unsaved, fetched, pc, inputFile, outExists, outFile,
                   outAtStart, scraped_urls, scanPos, urls_to_scrape, cur,
                   inAppend, lock, cnt, tvars, avars, xvars>>

\* scrape_article_page up to the record: an exception (caught and
\* printed), a skip, or the record ready to be written.
AcozyScrape(w) ==
    /\ pc = "collect" /\ script = "acozy"
    /\ worker[w].st = "scraping"
    /\ \/ /\ worker' = [worker EXCEPT ![w].st = "closing"]
          /\ task' = task
       \/ \E p \in Pages(script) :
            /\ task' = [task EXCEPT ![worker[w].item].res = ParseResult(script, p),
                                    ![worker[w].item].page = p]
            /\ worker' = [worker EXCEPT ![w].st =
                             IF ParseResult(script, p) = "rec"
                               THEN "wantlock" ELSE "closing"]
    /\ UNCHANGED <<script, unsaved, fetched, pc, inputFile, outExists, outFile,
                   outAtStart, scraped_urls, scanPos, urls_to_scrape, cur,
                   inAppend, lock, cnt, tvars, avars, xvars>>

\* async with lock: the worker enters the append
AcozyLock(w) ==
    /\ pc = "collect" /\ script = "acozy"
    /\ worker[w].st = "wantlock"
    /\ lock = 0
    /\ lock' = w
    /\ worker' = [worker EXCEPT ![w].st = "writing"]
    /\ inAppend' = inAppend \cup {worker[w].item}
    /\ UNCHANGED <<script, unsaved, fetched, pc, inputFile, outExists, outFile,
                   outAtStart, scraped_urls, scanPos, urls_to_scrape, task,
                   cur, cnt, tvars, avars, xvars>>

\* aiofiles.open(OUTPUT_FILE, 'a') and write: the line is appended, or
\* the write raises (caught by scrape_article_page); the lock is released.
AcozyWrite(w) ==
    /\ pc = "collect" /\ script = "acozy"
    /\ worker[w].st = "writing"
    /\ lock' = 0
    /\ inAppend' = inAppend \ {worker[w].item}
    /\ worker' = [worker EXCEPT ![w].st = "closing"]
    /\ \/ /\ outFile' = Appended(outFile, task[worker[w].item].url)
          /\ outExists' = TRUE
          /\ task' = [task EXCEPT ![worker[w].item].res = "saved"]
       \/ /\ UNCHANGED <<outFile, outExists>>
          /\ task' = [task EXCEPT ![worker[w].item].res = "failed"]
    /\ UNCHANGED <<script, unsaved, fetched, pc, inputFile, outAtStart, scraped_urls,
                   scanPos, urls_to_scrape, cur, cnt, tvars, avars, xvars>>

\* worker, finally: await page.close(); queue.task_done(); when
\* page.close() raises, the item is never marked done and the worker ends
AcozyClose(w) ==
    /\ pc = "collect" /\ script = "acozy"
    /\ worker[w].st = "closing"
    /\ \/ /\ task' = [task EXCEPT ![worker[w].item].st = "consumed",
                                  ![worker[w].item].page = NoPage,
                                  ![worker[w].item].open = Closed(@, "page")]
          /\ worker' = [worker EXCEPT ![w] = [st |-> "idle", item |-> 0]]
       \/ /\ task' = [task EXCEPT ![worker[w].item].st = "lost",
                                  ![worker[w].item].page = NoPage]
          /\ worker' = [worker EXCEPT ![w].st = "dead"]
    /\ UNCHANGED <<script, unsaved, fetched, pc, inputFile, outExists, outFile,
                   outAtStart, scraped_urls, scanPos, urls_to_scrape, cur,
                   inAppend, lock, cnt, tvars, avars, xvars>>

\* main: await queue.join() returns, the workers are cancelled
AcozyJoin ==
    /\ pc = "collect" /\ script = "acozy"
    /\ \A i \in DOMAIN task : task[i].st = "consumed"
    /\ pc' = "done"
    /\ UNCHANGED <<script, unsaved, fetched, inputFile, outExists, outFile, outAtStart,
                   scraped_urls, scanPos, urls_to_scrape, task, cur, inAppend,
                   lock, cnt, worker, tvars, avars, xvars>>

Next ==
    \/ StartRun
    \/ ScanStep
    \/ ScanEnd
    \/ ReadInput
    \/ Dispatch
    \/ \E i \in DOMAIN task : TaskRun(i)
    \/ \E i \in DOMAIN task : Collect(i)
    \/ HandleError
    \/ HandleSkip
    \/ BeginWrite
    \/ EndWrite
    \/ Finish
    \/ \E w \in DOMAIN worker : AcozyGet(w)
    \/ \E w \in DOMAIN worker : AcozyNewPage(w)
    \/ \E w \in DOMAIN worker : AcozyRoute(w)
    \/ \E w \in DOMAIN worker : AcozyScrape(w)
    \/ \E w \in DOMAIN worker : AcozyLock(w)
    \/ \E w \in DOMAIN worker : AcozyWrite(w)
    \/ \E w \in DOMAIN worker : AcozyClose(w)
    \/ AcozyJoin

Spec == Init /\ [][Next]_vars

\* =========================================================== text functions
\* A text is a sequence of characters.  ASCII characters stand for
\* themselves; the non-ASCII characters of the sources are named:
\*   "EMOJI" U+1F600   "a_circ" U+00E2   "euro" U+20AC   "tm" U+2122
\*   "tilde" U+02DC    "oe" U+0153       "brokenbar" U+00A6
\*   "ldq" U+201C      "rdq" U+201D      "lsq" U+2018    "rsq" U+2019
\*   "hellip" U+2026   "ndash" U+2013    "mdash" U+2014
\*   "sbquo" U+201A    "A_uml" U+00C4    "o_circ" U+00F4 "o_grave" U+00F2
\*   "u_acute" U+00FA  "u_grave" U+00F9  "para" U+00B6
\*   "i_grave" U+00EC  "i_circ" U+00EE

Digits == {"0", "1", "2", "3", "4", "5", "6", "7", "8", "9"}

Lower == {"a", "b", "c", "d", "e", "f", "g", "h", "i", "j", "k", "l", "m",
          "n", "o", "p", "q", "r", "s", "t", "u", "v", "w", "x", "y", "z"}

Upper == {"A", "B", "C", "D", "E", "F", "G", "H", "I", "J", "K", "L", "M",
          "N", "O", "P", "Q", "R", "S", "T", "U", "V", "W", "X", "Y", "Z"}

\* [A-Za-z0-9._%+-]
LocalChars == Lower \cup Upper \cup Digits \cup {".", "_", "%", "+", "-"}

\* [A-Za-z0-9.-]
DomainChars == Lower \cup Upper \cup Digits \cup {".", "-"}

\* [A-Z|a-z]
TldChars == Lower \cup Upper \cup {"|"}

\* \w of a str pattern: letters of any script, digits, underscore
WordChars == Lower \cup Upper \cup Digits \cup
             {"_", "a_circ", "oe", "A_uml", "o_circ", "o_grave",
              "u_acute", "u_grave", "i_grave", "i_circ"}

\* \s, and the characters str.strip() removes
SpaceChars == {" ", "\n", "\t"}

\* [\s.-]
SepChars == SpaceChars \cup {".", "-"}

\* the emoji character class of every script contains U+1F600
EmojiChars == {"EMOJI"}

\* [^\x00-\x7F], the named characters of the texts
NonAsciiChars == {"EMOJI", "a_circ", "euro", "tm", "tilde", "oe", "brokenbar",
                  "ldq", "rdq", "lsq", "rsq", "hellip", "ndash", "mdash",
                  "sbquo", "A_uml", "o_circ", "o_grave", "u_acute", "u_grave",
                  "para", "i_grave", "i_circ"}

\* the patterns of the sources
Patterns == {"email", "phone", "image", "placeholder", "emoji",
             "emoji_with_space", "spaces", "newlines", "image_lazy",
             "email_addicted2decorating", "phone_addicted2decorating",
             "kristi", "matt", "linauer", "html_tag", "newlines1", "blanks",
             "line_blanks", "non_ascii", "whitespace", "newlines3"}

placeholder == <<"_", "_", "_", "I", "M", "G", "_", "T", "A", "G", "_",
                 "P", "L", "A", "C", "E", "H", "O", "L", "D", "E", "R",
                 "_", "_", "_">>

ImageOpen == <<"[", "i", "m", "a", "g", "e", ":", " ">>

\* t has p at position i
StartsWithAt(t, i, p) ==
    /\ i + Len(p) - 1 <= Len(t)
    /\ \A k \in 1..Len(p) : t[i + k - 1] = p[k]

Max(S) == CHOOSE x \in S : \A y \in S : y <= x

Min(S) == CHOOSE x \in S : \A y \in S : x <= y

\* the least of the positions stops, or the position after the text
FirstStop(t, stops) == IF stops = {} THEN Len(t) + 1 ELSE Min(stops)

\* the first position from i on whose character is not in S
RunEnd(t, i, S) == FirstStop(t, {k \in i..Len(t) : t[k] \notin S})

\* the first position from i on whose character is c
RunEndBefore(t, i, c) == FirstStop(t, {k \in i..Len(t) : t[k] = c})

IsWordAt(t, k) == k \in 1..Len(t) /\ t[k] \in WordChars

\* \b between t[i-1] and t[i]
Boundary(t, i) == IsWordAt(t, i - 1) # IsWordAt(t, i)

\* \.[A-Z|a-z]{n}\b with the dot at position k
TldOK(t, k, n) ==
    /\ k + n <= Len(t)
    /\ \A m \in 1..n : t[k + m] \in TldChars
    /\ Boundary(t, k + n + 1)

\* the longest top-level domain after the dot at k, of 2 to hi letters
EmailTld(t, k, hi) == k + 1 + Max({n \in 2..hi : TldOK(t, k, n)})

\* the last dot of K: the greedy domain backtracks from its longest extent
EmailDots(t, K, hi) == IF K = {} THEN 0 ELSE EmailTld(t, Max(K), hi)

\* [A-Za-z0-9.-]+\.[A-Z|a-z]{2,hi}\b from j, the domain characters ending
\* before d
EmailDomain(t, j, d, hi) ==
    EmailDots(t, {k \in (j + 1)..(d - 1) :
                     t[k] = "." /\ \E n \in 2..hi : TldOK(t, k, n)}, hi)

\* the local part from i ends before l, where the @ must be
EmailLocal(t, i, l, hi) ==
    IF l > i /\ l <= Len(t) /\ t[l] = "@"
    THEN EmailDomain(t, l + 1, RunEnd(t, l + 1, DomainChars), hi)
    ELSE 0

\* \b[A-Za-z0-9._%+-]+@[A-Za-z0-9.-]+\.[A-Z|a-z]{2,hi}\b matched at i:
\* the position after the match, or 0
EmailEndUpTo(t, i, hi) ==
    IF Boundary(t, i)
    THEN EmailLocal(t, i, RunEnd(t, i, LocalChars), hi)
    ELSE 0

\* email_pattern, with {2,7}
EmailEnd(t, i) == EmailEndUpTo(t, i, 7)

\* the email pattern of addicted2decorating, with {2,}
EmailEnd_addicted2decorating(t, i) == EmailEndUpTo(t, i, Len(t))

HasDigits(t, k, n) ==
    /\ k + n - 1 <= Len(t)
    /\ \A m \in 0..(n - 1) : t[k + m] \in Digits

\* \d{3}[\s.-]?\d{4} matched at k
RestEnd(t, k) ==
    IF ~HasDigits(t, k, 3) THEN 0
    ELSE IF k + 3 <= Len(t) /\ t[k + 3] \in SepChars /\ HasDigits(t, k + 4, 4)
         THEN k + 8
    ELSE IF HasDigits(t, k + 3, 4) THEN k + 7
    ELSE 0

\* (\(?\d{3}\)?[\s.-]?) matched at i taking p, c, s of its optional parts,
\* followed by the rest
GroupEnd(t, i, p, c, s) ==
    IF /\ (p = 1 => (i <= Len(t) /\ t[i] = "("))
       /\ HasDigits(t, i + p, 3)
       /\ (c = 1 => (i + p + 3 <= Len(t) /\ t[i + p + 3] = ")"))
       /\ (s = 1 => (i + p + 3 + c <= Len(t) /\ t[i + p + 3 + c] \in SepChars))
    THEN RestEnd(t, i + p + 3 + c + s)
    ELSE 0

\* the order in which backtracking tries the optional parts
PhoneTries == << <<1, 1, 1>>, <<1, 1, 0>>, <<1, 0, 1>>, <<1, 0, 0>>,
                 <<0, 1, 1>>, <<0, 1, 0>>, <<0, 0, 1>>, <<0, 0, 0>> >>

\* the first try that matches, else the pattern without its group
PhoneFirst(t, i, ends, ok) ==
    IF ok # {} THEN ends[Min(ok)] ELSE RestEnd(t, i)

PhonePick(t, i, ends) ==
    PhoneFirst(t, i, ends, {n \in DOMAIN ends : ends[n] > 0})

\* phone_pattern matched at i
PhoneEnd(t, i) ==
    PhonePick(t, i, [n \in DOMAIN PhoneTries |->
                       GroupEnd(t, i, PhoneTries[n][1], PhoneTries[n][2],
                                PhoneTries[n][3])])

\* [-.]? at k: the position after it
OptSep(t, k) == IF k <= Len(t) /\ t[k] \in {"-", "."} THEN k + 1 ELSE k

\* \d{4}\b at k
PhoneLast(t, k) ==
    IF HasDigits(t, k, 4) /\ Boundary(t, k + 4) THEN k + 4 ELSE 0

\* \d{3}[-.]?\d{4}\b at k
PhoneMiddle(t, k) ==
    IF HasDigits(t, k, 3) THEN PhoneLast(t, OptSep(t, k + 3)) ELSE 0

\* \b\d{3}[-.]?\d{3}[-.]?\d{4}\b matched at i
PhoneEnd_addicted2decorating(t, i) ==
    IF Boundary(t, i) /\ HasDigits(t, i, 3)
    THEN PhoneMiddle(t, OptSep(t, i + 3))
    ELSE 0

UpperSeq == <<"A", "B", "C", "D", "E", "F", "G", "H", "I", "J", "K", "L", "M",
              "N", "O", "P", "Q", "R", "S", "T", "U", "V", "W", "X", "Y", "Z">>

LowerSeq == <<"a", "b", "c", "d", "e", "f", "g", "h", "i", "j", "k", "l", "m",
              "n", "o", "p", "q", "r", "s", "t", "u", "v", "w", "x", "y", "z">>

\* c.lower()
ToLower(c) ==
    IF c \in Upper THEN LowerSeq[CHOOSE n \in DOMAIN UpperSeq : UpperSeq[n] = c]
    ELSE c

\* \bword\b with re.IGNORECASE matched at i; word is in lower case
WordEnd(t, i, word) ==
    IF /\ Boundary(t, i)
       /\ i + Len(word) - 1 <= Len(t)
       /\ \A k \in DOMAIN word : ToLower(t[i + k - 1]) = word[k]
       /\ Boundary(t, i + Len(word))
    THEN i + Len(word)
    ELSE 0

\* the tag opened at i is closed at r
ImageClose(t, i, r) ==
    IF r > i + Len(ImageOpen) /\ r <= Len(t) THEN r + 1 ELSE 0

\* image_tag_pattern \[image: [^\]]+\] matched at i
ImageEnd(t, i) ==
    IF StartsWithAt(t, i, ImageOpen)
    THEN ImageClose(t, i, RunEndBefore(t, i + Len(ImageOpen), "]"))
    ELSE 0

\* the tag opened at i is closed at r, on the same line
ImageLazyClose(t, r) == IF r <= Len(t) /\ t[r] = "]" THEN r + 1 ELSE 0

\* \[image:.*?\] matched at i: up to the first ] of the line
ImageLazyEnd(t, i) ==
    IF StartsWithAt(t, i, SubSeq(ImageOpen, 1, Len(ImageOpen) - 1))
    THEN ImageLazyClose(t,
             FirstStop(t, {k \in (i + Len(ImageOpen) - 1)..Len(t) :
                              t[k] \in {"]", "\n"}}))
    ELSE 0

\* c{n,} of the characters S matched at i
\* <[^>]+> opened at i and closed at r
HtmlTagClose(t, i, r) == IF r > i + 1 /\ r <= Len(t) THEN r + 1 ELSE 0

HtmlTagEnd(t, i) ==
    IF t[i] = "<" THEN HtmlTagClose(t, i, RunEndBefore(t, i + 1, ">")) ELSE 0

RunLong(i, r, n) == IF r - i >= n THEN r ELSE 0

RunMatch(t, i, S, n) ==
    IF i <= Len(t) /\ t[i] \in S THEN RunLong(i, RunEnd(t, i, S), n) ELSE 0

\* pattern re matched at position i of t: the position after the match,
\* or 0 when it does not match there
MatchEnd(re, t, i) ==
    CASE re = "email" -> EmailEnd(t, i)
      [] re = "phone" -> PhoneEnd(t, i)
      [] re = "image" -> ImageEnd(t, i)
      [] re = "placeholder" ->
            IF StartsWithAt(t, i, placeholder) THEN i + Len(placeholder) ELSE 0
      [] re = "emoji" -> RunMatch(t, i, EmojiChars, 1)
      [] re = "emoji_with_space" ->
            RunMatch(t, IF t[i] = " " /\ i < Len(t) /\ t[i + 1] \in EmojiChars
                        THEN i + 1 ELSE i, EmojiChars, 1)
      [] re = "spaces" -> RunMatch(t, i, {" "}, 1)
      [] re = "newlines" -> RunMatch(t, i, {"\n"}, 2)
      [] re = "image_lazy" -> ImageLazyEnd(t, i)
      [] re = "email_addicted2decorating" ->
            EmailEnd_addicted2decorating(t, i)
      [] re = "phone_addicted2decorating" ->
            PhoneEnd_addicted2decorating(t, i)
      [] re = "html_tag" -> HtmlTagEnd(t, i)
      [] re = "newlines1" -> RunMatch(t, i, {"\n"}, 1)
      [] re = "blanks" -> RunMatch(t, i, {" ", "\t"}, 1)
      [] re = "line_blanks" ->
            IF i = 1 \/ t[i - 1] = "\n"
            THEN RunMatch(t, i, {" ", "\t"}, 1) ELSE 0
      [] re = "non_ascii" -> RunMatch(t, i, NonAsciiChars, 1)
      [] re = "whitespace" -> RunMatch(t, i, SpaceChars, 1)
      [] re = "newlines3" -> RunMatch(t, i, {"\n"}, 3)
      [] re = "kristi" -> WordEnd(t, i, <<"k", "r", "i", "s", "t", "i">>)
      [] re = "matt" -> WordEnd(t, i, <<"m", "a", "t", "t">>)
      [] re = "linauer" ->
            WordEnd(t, i, <<"l", "i", "n", "a", "u", "e", "r">>)

\* lambda m: 'x' * len(m.group())
Mask(m) == [k \in 1..Len(m) |-> "x"]

\* the match at k, as <<start, position after it>>
SpanAt(re, t, k) == <<k, MatchEnd(re, t, k)>>

NoSpan == <<0, 0>>

FirstOf(re, t, M) == IF M = {} THEN NoSpan ELSE SpanAt(re, t, Min(M))

\* the leftmost match of pattern re from position i on
FirstMatch(re, t, i) ==
    FirstOf(re, t, {k \in i..Len(t) : MatchEnd(re, t, k) > k})

RECURSIVE FindAllFrom(_, _, _)
FindSpan(re, t, m) ==
    IF m = NoSpan THEN <<>>
    ELSE <<SubSeq(t, m[1], m[2] - 1)>> \o FindAllFrom(re, t, m[2])

\* re.findall(re, t) from position i: the leftmost match, then the rest
FindAllFrom(re, t, i) == FindSpan(re, t, FirstMatch(re, t, i))

FindAll(re, t) == FindAllFrom(re, t, 1)

RECURSIVE SubFrom(_, _, _, _, _)
SubSpan(re, mask, repl, t, i, m) ==
    IF m = NoSpan THEN SubSeq(t, i, Len(t))
    ELSE SubSeq(t, i, m[1] - 1)
           \o (IF mask THEN Mask(SubSeq(t, m[1], m[2] - 1)) ELSE repl)
           \o SubFrom(re, mask, repl, t, m[2])

\* re.sub(re, repl, t) from position i, the matches replaced by repl or,
\* with mask, by as many x
SubFrom(re, mask, repl, t, i) ==
    SubSpan(re, mask, repl, t, i, FirstMatch(re, t, i))

ReSub(re, repl, t) == SubFrom(re, FALSE, repl, t, 1)

ReSubMask(re, t) == SubFrom(re, TRUE, <<>>, t, 1)

RECURSIVE ReplaceFrom(_, _, _, _)
ReplaceAt(t, i, old, new, k) ==
    IF k > Len(t) THEN SubSeq(t, i, Len(t))
    ELSE SubSeq(t, i, k - 1) \o new \o ReplaceFrom(t, k + Len(old), old, new)

\* str.replace(old, new) from position i
ReplaceFrom(t, i, old, new) ==
    ReplaceAt(t, i, old, new,
              FirstStop(t, {k \in i..Len(t) : StartsWithAt(t, k, old)}))

\* a chain of str.replace calls, applied in order
RECURSIVE ReplaceAll(_, _, _)
ReplaceAll(t, chain, n) ==
    IF n > Len(chain) THEN t
    ELSE ReplaceAll(ReplaceFrom(t, 1, chain[n][1], chain[n][2]), chain, n + 1)

StripKeep(t, keep) ==
    IF keep = {} THEN <<>> ELSE SubSeq(t, Min(keep), Max(keep))

\* str.strip()
Strip(t) == StripKeep(t, {k \in 1..Len(t) : t[k] \notin SpaceChars})

\* the replace chains of the normalizers
Replacements_aglugofoil ==
    << << <<"a_circ", "euro", "tm">>, <<"'">> >>,
       << <<"a_circ", "euro", "tilde">>, <<"'">> >>,
       << <<"a_circ", "euro", "oe">>, <<"\"">> >>,
       << <<"a_circ", "euro">>, <<"\"">> >>,
       << <<"a_circ", "euro", "brokenbar">>, <<".", ".", ".">> >>,
       << <<"a_circ", "euro", "ldq">>, <<"-">> >>,
       << <<"a_circ", "euro", "rdq">>, <<"-">> >> >>

Replacements_adventurousmiriam ==
    << << <<"rsq">>, <<"'">> >>,
       << <<"lsq">>, <<"'">> >>,
       << <<"ldq">>, <<"\"">> >>,
       << <<"rdq">>, <<"\"">> >>,
       << <<"hellip">>, <<".", ".", ".">> >>,
       << <<"ndash">>, <<"-">> >>,
       << <<"mdash">>, <<"-">> >> >>

Replacements_afamilyfeast ==
    << << <<"sbquo", "A_uml", "o_circ">>, <<"'">> >>,
       << <<"sbquo", "A_uml", "o_grave">>, <<"'">> >>,
       << <<"sbquo", "A_uml", "u_acute">>, <<"\"">> >>,
       << <<"sbquo", "A_uml", "u_grave">>, <<"\"">> >>,
       << <<"sbquo", "A_uml", "para">>, <<".", ".", ".">> >>,
       << <<"sbquo", "A_uml", "i_grave">>, <<"-">> >>,
       << <<"sbquo", "A_uml", "i_circ">>, <<"-">> >> >>

\* replacements, emoji filter, whitespace handling, strip
Normalize(t, chain) ==
    Strip(ReSub("newlines", <<"\n">>,
          ReSub("spaces", <<" ">>,
          ReSub("emoji", <<>>,
          ReplaceAll(t, chain, 1)))))

normalize_text_aglugofoil(t) == Normalize(t, Replacements_aglugofoil)

normalize_text_adventurousmiriam(t) ==
    Normalize(t, Replacements_adventurousmiriam)

\* emails, then phone numbers, masked with x
anonymize_text_adventurousmiriam(t) == ReSubMask("phone", ReSubMask("email", t))

\* addicted2decorating: emails, phone numbers and three names replaced by
\* fixed strings
anonymize_text_addicted2decorating(t) ==
    ReSub("linauer", <<"x">>,
    ReSub("matt", <<"x">>,
    ReSub("kristi", <<"x">>,
    ReSub("phone_addicted2decorating",
          <<"x", "x", "x", "-", "x", "x", "x", "-", "x", "x", "x", "x">>,
    ReSub("email_addicted2decorating",
          <<"x", "@", "x", ".", "x", "x">>, t)))))

\* " ".join(text.split()): the words of the text with one space between them
JoinSplit(t) == Strip(ReSub("whitespace", <<" ">>, t))

\* addicted2decorating: markup, blank runs and non-ASCII characters removed
clean_text_addicted2decorating(t) ==
    IF t = <<>> THEN <<>>
    ELSE Strip(JoinSplit(
         ReSub("non_ascii", <<>>,
         ReSub("line_blanks", <<>>,
         ReSub("blanks", <<" ">>,
         ReSub("newlines1", <<"\n">>,
         ReSub("html_tag", <<>>, t)))))))

\* bakingbar: clean_text with the curly-quote replacements
clean_text_bakingbar(t) ==
    Normalize(anonymize_text_adventurousmiriam(t),
              Replacements_adventurousmiriam)

\* bakefromscratch: the whitespace step of scrape_article
full_content_text_bakefromscratch(t) ==
    Strip(ReSub("newlines3", <<"\n", "\n">>, t))

\* adventurousmiriam, parse_html_content: the cleaned content of the record
cleaned_content_adventurousmiriam(t) ==
    anonymize_text_adventurousmiriam(normalize_text_adventurousmiriam(t))

\* the anonymizing and the cleaning rules in one function
clean_text(t) ==
    Normalize(anonymize_text_adventurousmiriam(t), Replacements_afamilyfeast)

\* a function that raised returns no text
Raised == [ok |-> FALSE, text |-> <<>>]

Returned(t) == [ok |-> TRUE, text |-> t]

RECURSIVE RestoreFrom(_, _, _, _)
RestoreSpan(t, i, tags, n, m) ==
    IF m = NoSpan THEN SubSeq(t, i, Len(t))
    ELSE SubSeq(t, i, m[1] - 1) \o tags[n]
           \o RestoreFrom(t, m[2], tags, n + 1)

\* re.sub(placeholder, lambda m: next(tag_iter), t) from position i, the
\* n-th tag next
RestoreFrom(t, i, tags, n) ==
    RestoreSpan(t, i, tags, n, FirstMatch("placeholder", t, i))

\* next(tag_iter) raises StopIteration when the anonymized text holds more
\* placeholders than the input had image tags
RestoreTags(image_tags, anonymized_text) ==
    IF Len(FindAll("placeholder", anonymized_text)) > Len(image_tags)
    THEN Raised
    ELSE Returned(RestoreFrom(anonymized_text, 1, image_tags, 1))

\* the image tags are swapped for the placeholder, emails and phone
\* numbers masked, and the tags put back
anonymize_text_aglugofoil(t) ==
    RestoreTags(FindAll("image", t),
                ReSubMask("phone",
                    ReSubMask("email", ReSub("image", placeholder, t))))

\* afrovitalityeats: the code of aglugofoil's anonymize_text, line for line
anonymize_text_afrovitalityeats(t) == anonymize_text_aglugofoil(t)

RECURSIVE SplitLines(_, _)
SplitAt(t, i, e) ==
    IF e > Len(t) THEN <<SubSeq(t, i, Len(t))>>
    ELSE <<SubSeq(t, i, e - 1)>> \o SplitLines(t, e + 1)

\* text.split('\n') from position i
SplitLines(t, i) == SplitAt(t, i, RunEndBefore(t, i, "\n"))

\* '\n'.join(lines) from line n
RECURSIVE JoinLines(_, _)
JoinLines(lines, n) ==
    IF n > Len(lines) THEN <<>>
    ELSE IF n = Len(lines) THEN lines[n]
    ELSE lines[n] \o <<"\n">> \o JoinLines(lines, n + 1)

\* the stripped lines that are not blank
NotBlank(l) == l # <<>>

StripEach(lines) == [n \in DOMAIN lines |-> Strip(lines[n])]

StrippedLines(t) == SelectSeq(StripEach(SplitLines(t, 1)), NotBlank)

clean_simple_text(t) ==
    IF t = <<>> THEN <<>>
    ELSE ReSub("emoji_with_space", <<>>,
         ReSub("newlines", <<"\n">>, JoinLines(StrippedLines(t), 1)))

\* ----------------------------------------------- applying the text functions
TextFunctions == {"normalize_text_aglugofoil",
                  "normalize_text_adventurousmiriam",
                  "anonymize_text_aglugofoil",
                  "anonymize_text_adventurousmiriam",
                  "clean_text", "clean_simple_text",
                  "anonymize_text_addicted2decorating",
                  "clean_text_addicted2decorating", "clean_text_bakingbar",
                  "full_content_text_bakefromscratch",
                  "anonymize_text_afrovitalityeats",
                  "cleaned_content_adventurousmiriam"}

\* the values passed that are not strings: None, 0 and 5
NonStrings == {"None", "0", "5"}

ArgKinds == {"str"} \cup NonStrings

\* the functions that begin with: if not isinstance(text, str): return ""
ChecksType == {"normalize_text_aglugofoil", "normalize_text_adventurousmiriam",
               "anonymize_text_aglugofoil", "anonymize_text_adventurousmiriam",
               "clean_text", "clean_text_bakingbar",
               "anonymize_text_afrovitalityeats"}

\* the functions that begin with: if not text: return ""
ChecksEmpty == {"clean_simple_text", "clean_text_addicted2decorating"}

\* the call f(v) for a value v that is not a string: str methods and re.sub
\* raise on it
CallNonString(f, v) ==
    IF f \in ChecksType \/ (f \in ChecksEmpty /\ v \in {"None", "0"})
    THEN Returned(<<>>)
    ELSE Raised

\* the call f(t) and its outcome
Call(f, t) ==
    CASE f = "normalize_text_aglugofoil" ->
            Returned(normalize_text_aglugofoil(t))
      [] f = "normalize_text_adventurousmiriam" ->
            Returned(normalize_text_adventurousmiriam(t))
      [] f = "anonymize_text_aglugofoil" -> anonymize_text_aglugofoil(t)
      [] f = "anonymize_text_adventurousmiriam" ->
            Returned(anonymize_text_adventurousmiriam(t))
      [] f = "clean_text" -> Returned(clean_text(t))
      [] f = "clean_simple_text" -> Returned(clean_simple_text(t))
      [] f = "anonymize_text_addicted2decorating" ->
            Returned(anonymize_text_addicted2decorating(t))
      [] f = "clean_text_addicted2decorating" ->
            Returned(clean_text_addicted2decorating(t))
      [] f = "clean_text_bakingbar" -> Returned(clean_text_bakingbar(t))
      [] f = "full_content_text_bakefromscratch" ->
            Returned(full_content_text_bakefromscratch(t))
      [] f = "anonymize_text_afrovitalityeats" ->
            anonymize_text_afrovitalityeats(t)
      [] f = "cleaned_content_adventurousmiriam" ->
            Returned(cleaned_content_adventurousmiriam(t))

\* the pieces the input texts are built from
Pieces == { <<"a">>, <<" ">>, <<"\n">>, <<"EMOJI">>,
            <<"@", "b", ".", "c", "o">>,
            ImageOpen \o <<"5", "5", "5", "1", "2", "3", "4", "]">>,
            <<"a_circ">>, <<"euro", "tm">>, placeholder, <<" ", "EMOJI">> }

\* the concatenations of up to n pieces
RECURSIVE TextsOf(_)
TextsOf(n) ==
    IF n = 0 THEN {<<>>}
    ELSE LET shorter == TextsOf(n - 1)
         IN  shorter \cup {s \o p : s \in shorter, p \in Pieces}

Texts == TextsOf(MaxPieces)

\* the pipeline stands still while the text functions are exercised
InitText ==
    /\ script = "adventurousmiriam"
    /\ outExists = FALSE
    /\ outFile = <<>>
    /\ RunIdle
    /\ arg \in ArgKinds
    /\ txt \in IF arg = "str" THEN Texts ELSE {<<>>}
    /\ op = "none"
    /\ out1 = NoResult
    /\ out2 = NoResult
    /\ tpc = "input"
    /\ AsmOff
    /\ ToolsOff

\* f(txt), or f(arg) for an argument that is not a string; the whitespace
\* step of bakefromscratch is applied to the joined text only
Apply(f) ==
    /\ tpc = "input"
    /\ arg = "str" \/ f \notin {"full_content_text_bakefromscratch",
                                "cleaned_content_adventurousmiriam"}
    /\ op' = f
    /\ out1' = IF arg = "str" THEN Call(f, txt) ELSE CallNonString(f, arg)
    /\ tpc' = "once"
    /\ UNCHANGED <<txt, arg, out2, pvars, avars, xvars>>

\* f(f(txt)), when the first call returned
Reapply ==
    /\ tpc = "once"
    /\ out1.ok
    /\ out2' = Call(op, out1.text)
    /\ tpc' = "twice"
    /\ UNCHANGED <<txt, arg, op, out1, pvars, avars, xvars>>

NextText ==
    \/ \E f \in TextFunctions : Apply(f)
    \/ Reapply

SpecText == InitText /\ [][NextText]_vars

\* ========================================================== record assembly
\* parse_html_content / scrape_article on pages whose body is a list of
\* paragraphs and image figures, in document order.

\* a paragraph long enough to bring a body to the threshold
Filler == [k \in 1..FillerLen |-> "a"]

Paragraph(t) == [kind |-> "p", text |-> t]

Figure(u) == [kind |-> "figure", text |-> u]

\* the elements a page body is built from
Parts == {Paragraph(Filler), Paragraph(<<"a">>), Paragraph(<<"EMOJI">>),
          Figure(<<"5", "5", "5", "1", "2", "3", "4">>)}

Titles == { <<"T">>, <<"T", "EMOJI">> }

Dates == {"d1", "d2"}

\* what a fetch can bring back
AsmPages ==
    {[url |-> u, title |-> ti, parts |-> ps] :
        u \in URLS, ti \in Titles, ps \in SeqsUpTo(Parts, MaxParts)}

\* f"[image: {img_url}]"
ImageTag(u) == ImageOpen \o u \o <<"]">>

\* sep.join(parts) from part n
RECURSIVE JoinFrom(_, _, _)
JoinFrom(parts, sep, n) ==
    IF n > Len(parts) THEN <<>>
    ELSE IF n = Len(parts) THEN parts[n]
    ELSE parts[n] \o sep \o JoinFrom(parts, sep, n + 1)

\* content_parts: the paragraph texts and the image tags, in order
content_parts(pg) ==
    [n \in DOMAIN pg.parts |->
        IF pg.parts[n].kind = "figure" THEN ImageTag(pg.parts[n].text)
        ELSE pg.parts[n].text]

IsParagraph(e) == e.kind = "p"

IsFigure(e) == e.kind = "figure"

TextsOfParts(ps) == [n \in DOMAIN ps |-> ps[n].text]

\* the texts of the paragraphs only
text_parts(pg) == TextsOfParts(SelectSeq(pg.parts, IsParagraph))

\* the urls of the image figures
image_urls(pg) == TextsOfParts(SelectSeq(pg.parts, IsFigure))

\* hashlib.md5(url.encode('utf-8')).hexdigest()
md5(u) == <<"md5", u>>

generate_id(url) == md5(url)

\* the record: "Text" is f"{title}\n{content}"
RecordMutant(url, title, content, date) ==
    [ID |-> md5(content),
     Text |-> title \o <<"\n">> \o content,
     url |-> url, title |-> title, content |-> content,
     processing_date |-> date]
Record(url, title, content, date) ==
    [ID |-> generate_id(url),
     Text |-> title \o <<"\n">> \o content,
     url |-> url, title |-> title, content |-> content,
     processing_date |-> date]

\* the keys of the record of the schema, nested keys by their path
Schema ==
    {"ID", "Text", "meta", "meta.data_info", "meta.data_info.lang",
     "meta.data_info.url", "meta.data_info.source", "meta.data_info.type",
     "meta.data_info.processing_date", "meta.data_info.delivery_version",
     "meta.data_info.title", "meta.data_info.content",
     "meta.data_info.content_info", "meta.data_info.content_info.domain",
     "meta.data_info.content_info.subdomain"}

\* the keys of the dict literal script s builds; addicted2decorating names
\* the text field "text"
KeyPaths(s) ==
    IF s = "addicted2decorating" THEN (Schema \ {"Text"}) \cup {"text"}
    ELSE Schema

\* the outcome of an assembly: the length the gate measured and the text
\* it measured it on, and the record (with the keys of its dict) or none
Assembled(measured, gated, rec, keys) ==
    [kind |-> "rec", measured |-> measured, gated |-> gated, rec |-> rec,
     keys |-> keys]

Skipped(measured, gated) ==
    [kind |-> "none", measured |-> measured, gated |-> gated]

\* the minimum-length gate on the text gated, then the record
Gate(s, gated, url, title, content, date) ==
    IF TooShort(Len(gated), min_length(s, FALSE))
    THEN Skipped(Len(gated), gated)
    ELSE Assembled(Len(gated), gated, Record(url, title, content, date),
                   KeyPaths(s))

\* adventurousmiriam: the gate measures cleaned_content as it is
GateCleaned(s, url, title, cleaned_content, date) ==
    Gate(s, cleaned_content, url, title, cleaned_content, date)

parse_html_content_adventurousmiriam(pg, date) ==
    GateCleaned("adventurousmiriam", pg.url,
        normalize_text_adventurousmiriam(pg.title),
        anonymize_text_adventurousmiriam(
            normalize_text_adventurousmiriam(
                JoinFrom(content_parts(pg), <<"\n">>, 1))),
        date)

\* aglugofoil: the gate measures cleaned_content without its image tags;
\* a raising anonymize_text leaves parse_html_content
GateStripped(s, url, title, anonymized, date) ==
    IF ~anonymized.ok THEN [kind |-> "raised"]
    ELSE Gate(s, ReSub("image", <<>>, anonymized.text),
              url, title, anonymized.text, date)

parse_html_content_aglugofoil(pg, date) ==
    GateStripped("aglugofoil", pg.url,
        normalize_text_aglugofoil(pg.title),
        anonymize_text_aglugofoil(
            normalize_text_aglugofoil(
                JoinFrom(content_parts(pg), <<"\n">>, 1) \o <<"\n", "\n">>)),
        date)

scrape_article_bakingbar(pg, date) ==
    GateCleaned("bakingbar", pg.url,
        clean_text_bakingbar(pg.title),
        clean_text_bakingbar(JoinFrom(content_parts(pg), <<"\n">>, 1)),
        date)

\* acozy: the gate measures the raw text-only content without image tags;
\* the content of the record is cleaned after the gate
scrape_article_page(pg, date) ==
    Gate("acozy",
         Strip(ReSub("image_lazy", <<>>,
                     JoinFrom(text_parts(pg), <<"\n", "\n">>, 1))),
         pg.url, pg.title,
         clean_simple_text(JoinFrom(content_parts(pg), <<"\n", "\n">>, 1)),
         date)

\* f"[image: {image_url}]" of the first image, or nothing
image_markdown(urls) == IF urls = <<>> THEN <<>> ELSE ImageTag(urls[1])

\* the tag of the main image is put in front of the gated text
GateThenImage(s, url, title, full_content_text, image, date) ==
    Gate(s, full_content_text, url, title, image \o full_content_text, date)

\* ayurvedichealing: the gate measures the joined paragraphs
scrape_article_ayurvedichealing(pg, date) ==
    GateThenImage("ayurvedichealing", pg.url, pg.title,
        Strip(ReSub("newlines", <<"\n">>,
                    JoinFrom(text_parts(pg), <<"\n">>, 1))),
        image_markdown(image_urls(pg)), date)

\* img_src.startswith(("http://", "https://"))
HttpUrl(u) ==
    \/ StartsWithAt(u, 1, <<"h", "t", "t", "p", ":", "/", "/">>)
    \/ StartsWithAt(u, 1, <<"h", "t", "t", "p", "s", ":", "/", "/">>)

\* addicted2decorating, extract_content_with_images: what one element adds
\* to content_parts (none of the filtered phrases can be spelled with the
\* characters of the paragraphs)
PartText_addicted2decorating(e) ==
    IF e.kind = "figure"
    THEN (IF HttpUrl(e.text) THEN ImageTag(e.text) ELSE <<>>)
    ELSE clean_text_addicted2decorating(Strip(e.text))

\* an image marker, or a cleaned paragraph of more than 10 characters
Kept_addicted2decorating(e) ==
    IF e.kind = "figure" THEN e.text # <<>> ELSE Len(e.text) > 10

content_parts_addicted2decorating(pg) ==
    TextsOfParts(SelectSeq(
        [n \in DOMAIN pg.parts |->
            [kind |-> pg.parts[n].kind,
             text |-> PartText_addicted2decorating(pg.parts[n])]],
        Kept_addicted2decorating))

\* addicted2decorating: the content is cleaned, then anonymized, then gated
scrape_article_addicted2decorating(pg, date) ==
    GateCleaned("addicted2decorating", pg.url,
        clean_text_addicted2decorating(Strip(pg.title)),
        anonymize_text_addicted2decorating(
            clean_text_addicted2decorating(
                JoinFrom(content_parts_addicted2decorating(pg), <<"\n">>, 1))),
        date)

\* afrovitalityeats: normalize_text has the replace chain of
\* adventurousmiriam
normalize_text_afrovitalityeats(t) ==
    Normalize(t, Replacements_adventurousmiriam)

\* afrovitalityeats, get_cleaned_text and the image check: what one element
\* adds to content_parts
PartText_afrovitalityeats(e) ==
    IF e.kind = "figure"
    THEN (IF StartsWithAt(e.text, 1, <<"h", "t", "t", "p">>)
          THEN ImageTag(e.text) ELSE <<>>)
    ELSE JoinSplit(e.text)

NotEmptyPart(e) == e.text # <<>>

content_parts_afrovitalityeats(pg) ==
    TextsOfParts(SelectSeq(
        [n \in DOMAIN pg.parts |->
            [kind |-> pg.parts[n].kind,
             text |-> PartText_afrovitalityeats(pg.parts[n])]],
        NotEmptyPart))

\* afrovitalityeats: a page without recipe card; the gate measures the
\* cleaned content without its image tags
parse_html_content_afrovitalityeats(pg, date) ==
    GateStripped("afrovitalityeats", pg.url,
        normalize_text_afrovitalityeats(JoinSplit(pg.title)),
        anonymize_text_afrovitalityeats(
            normalize_text_afrovitalityeats(
                Strip(JoinFrom(content_parts_afrovitalityeats(pg),
                               <<"\n">>, 1) \o <<"\n", "\n">>))),
        date)

AsmScripts == {"adventurousmiriam", "aglugofoil", "bakingbar", "acozy",
               "ayurvedichealing", "addicted2decorating", "afrovitalityeats"}

\* the assembly of script s
Assemble(s, pg, date) ==
    CASE s = "adventurousmiriam" ->
            parse_html_content_adventurousmiriam(pg, date)
      [] s = "aglugofoil" -> parse_html_content_aglugofoil(pg, date)
      [] s = "bakingbar" -> scrape_article_bakingbar(pg, date)
      [] s = "acozy" -> scrape_article_page(pg, date)
      [] s = "ayurvedichealing" -> scrape_article_ayurvedichealing(pg, date)
      [] s = "addicted2decorating" ->
            scrape_article_addicted2decorating(pg, date)
      [] s = "afrovitalityeats" ->
            parse_html_content_afrovitalityeats(pg, date)

\* the pipeline and the text functions stand still during the assemblies
InitAsm ==
    /\ script \in AsmScripts
    /\ outExists = FALSE
    /\ outFile = <<>>
    /\ RunIdle
    /\ TextOff
    /\ html = NoAsmPage
    /\ asm = NoAsm
    /\ ToolsOff

\* a page is fetched
Fetch ==
    /\ html = NoAsmPage
    /\ html' \in AsmPages
    /\ UNCHANGED <<asm, pvars, tvars, xvars>>

\* the fetched page is parsed and assembled, at some date
Parse ==
    /\ html # NoAsmPage
    /\ asm = NoAsm
    /\ \E d \in Dates : asm' = Assemble(script, html, d)
    /\ UNCHANGED <<html, pvars, tvars, xvars>>

NextAsm ==
    \/ Fetch
    \/ Parse

SpecAsm == InitAsm /\ [][NextAsm]_vars

\* ================================================== resumable link collector
\* architecturaldigest.com/extract.py: the script walks the pages of each
\* category, appends the links it has not saved yet to the output file and
\* saves (category, page) in the state file before each fetch.  A page of
\* the site holds one headline link; the page after the last one of a
\* category holds no article (or fails to load: both end the category).

\* the pages of a category that hold an article
MaxPages == 3

\* how often the script is interrupted and started again
MaxRestarts == 1

LINKS == {"l1", "l2", "l3"}

\* the first and the last category of the list of the script
CATEGORIES == <<"architecture-design", "">>

Sites == [1..Len(CATEGORIES) -> SeqsUpTo(LINKS, MaxPages)]

\* STATE_FILE: absent, or "category,page"
NoState == <<>>

\* start_category is None
None == "None"

\* the collector before the script starts, on given files
Started(site, out, state, restarts) ==
    [pc |-> "start", site |-> site, out |-> out, state |-> state,
     restarts |-> restarts, saved_links |-> {}, start_category |-> None,
     start_page |-> 1, found_start_category |-> FALSE, ci |-> 1, page |-> 1]

InitLinks ==
    /\ script = "adventurousmiriam"
    /\ outExists = FALSE
    /\ outFile = <<>>
    /\ RunIdle
    /\ TextOff
    /\ AsmOff
    /\ resume \in {Started(s, <<>>, NoState, 0) : s \in Sites}
    /\ par = Off
    /\ clean = Off

\* lines 13-53: the links of the output file and the saved state are loaded
LinksLoad ==
    /\ resume.pc = "start"
    /\ resume' = [resume EXCEPT
          !.saved_links = Range(resume.out),
          !.start_category =
              IF resume.state = NoState THEN None ELSE resume.state[1],
          !.start_page = IF resume.state = NoState THEN 1 ELSE resume.state[2],
          !.found_start_category = (resume.state = NoState),
          !.ci = 1,
          !.pc = "category"]
    /\ UNCHANGED <<pvars, tvars, avars, par, clean>>

\* lines 55-71: the head of the loop over the categories
LinksCategory ==
    /\ resume.pc = "category"
    /\ resume' =
         IF resume.ci > Len(CATEGORIES)
           THEN [resume EXCEPT !.pc = "cleanup"]
         ELSE IF /\ ~resume.found_start_category
                 /\ CATEGORIES[resume.ci] # resume.start_category
           THEN [resume EXCEPT !.ci = @ + 1]
         ELSE [resume EXCEPT !.found_start_category = TRUE,
                             !.page = resume.start_page,
                             !.pc = "save"]
    /\ UNCHANGED <<pvars, tvars, avars, par, clean>>

\* lines 75-79: the state is saved before the fetch
LinksSave ==
    /\ resume.pc = "save"
    /\ resume' = [resume EXCEPT
          !.state = <<CATEGORIES[resume.ci], resume.page>>,
          !.pc = "fetch"]
    /\ UNCHANGED <<pvars, tvars, avars, par, clean>>

\* lines 83-118: the page is fetched; no article on it ends the category
LinksFetch ==
    /\ resume.pc = "fetch"
    /\ resume' = [resume EXCEPT
          !.pc = IF resume.page <= Len(resume.site[resume.ci])
                   THEN "write" ELSE "next"]
    /\ UNCHANGED <<pvars, tvars, avars, par, clean>>

\* the link of the page the collector is on
PageLink(r) == r.site[r.ci][r.page]

\* lines 120-158: the new links of the page are appended; a page after the
\* first without a new link ends the category
LinksWrite ==
    /\ resume.pc = "write"
    /\ resume' =
         IF PageLink(resume) \notin resume.saved_links
           THEN [resume EXCEPT
                   !.out = Append(@, PageLink(resume)),
                   !.saved_links = @ \cup {PageLink(resume)},
                   !.page = @ + 1,
                   !.pc = "save"]
         ELSE IF resume.page > 1
           THEN [resume EXCEPT !.pc = "next"]
         ELSE [resume EXCEPT !.page = @ + 1, !.pc = "save"]
    /\ UNCHANGED <<pvars, tvars, avars, par, clean>>

\* lines 161-162: start_page is reset for the next category
LinksNext ==
    /\ resume.pc = "next"
    /\ resume' = [resume EXCEPT !.start_page = 1, !.ci = @ + 1,
                                !.pc = "category"]
    /\ UNCHANGED <<pvars, tvars, avars, par, clean>>

\* lines 166-175: the state file is removed
LinksCleanup ==
    /\ resume.pc = "cleanup"
    /\ resume' = [resume EXCEPT !.state = NoState, !.pc = "complete"]
    /\ UNCHANGED <<pvars, tvars, avars, par, clean>>

\* the script is interrupted and started again: the files stay
LinksInterrupt ==
    /\ resume.pc \in {"category", "save", "fetch", "write", "next", "cleanup"}
    /\ resume.restarts < MaxRestarts
    /\ resume' = Started(resume.site, resume.out, resume.state,
                         resume.restarts + 1)
    /\ UNCHANGED <<pvars, tvars, avars, par, clean>>

NextLinks ==
    \/ LinksLoad
    \/ LinksCategory
    \/ LinksSave
    \/ LinksFetch
    \/ LinksWrite
    \/ LinksNext
    \/ LinksCleanup
    \/ LinksInterrupt

SpecLinks == InitLinks /\ [][NextLinks]_vars

\* the links in the file after the loop over the pages of one category,
\* run from page p without interruption
RECURSIVE CategoryLinks(_, _, _)
CategoryLinks(pages, p, saved) ==
    IF p > Len(pages) THEN saved
    ELSE IF pages[p] \in saved /\ p > 1 THEN saved
    ELSE CategoryLinks(pages, p + 1, saved \cup {pages[p]})

\* the links in the file after the loop over the categories from c on
RECURSIVE UninterruptedLinks(_, _, _)
UninterruptedLinks(site, c, saved) ==
    IF c > Len(CATEGORIES) THEN saved
    ELSE UninterruptedLinks(site, c + 1, CategoryLinks(site[c], 1, saved))

\* ========================================= parallel category link collector
\* africanbites.com/extract.py, scrape_all_categories_parallel: one task per
\* category, run by a pool of threads; each task gathers the links of its
\* category and then appends them to the shared links file through a file
\* object of its own, opened in append mode.  No lock guards the file.

\* the categories of categories.txt
MaxCategories == 2

\* the links the buffer of a file object holds before it is written out
\* (io.DEFAULT_BUFFER_SIZE bytes, counted in links)
BufferSize == 2

\* max_workers of the pool of category tasks
CategoryWorkers == 3

Categories == 1..MaxCategories

\* the links a category may have: none, up to one more than a buffer holds
LinkCounts == 0..(BufferSize + 1)

\* link n of category c
CategoryLink(c, n) == [category |-> c, n |-> n]

QueuedTask == [pc |-> "queued", links |-> 0, next |-> 1, buf |-> <<>>]

InitPar ==
    /\ script = "adventurousmiriam"
    /\ outExists = FALSE
    /\ outFile = <<>>
    /\ RunIdle
    /\ TextOff
    /\ AsmOff
    /\ resume = Off
    /\ clean = Off
    /\ \E old \in {<<>>, <<CategoryLink(0, 1)>>} :
          par = [pc |-> "start", file |-> old,
                 th |-> [c \in Categories |-> QueuedTask]]

\* lines 152-176: the output file is removed, the tasks are submitted
ParStart ==
    /\ par.pc = "start"
    /\ par' = [par EXCEPT !.pc = "running", !.file = <<>>]
    /\ UNCHANGED <<pvars, tvars, avars, resume, clean>>

\* the tasks a thread of the pool is running
Running(p) == {c \in Categories : p.th[c].pc \in {"gathered", "writing"}}

\* lines 61-80: a free thread takes a category and gathers its links
ParScrape(c) ==
    /\ par.pc = "running"
    /\ par.th[c].pc = "queued"
    /\ Cardinality(Running(par)) < CategoryWorkers
    /\ \E n \in LinkCounts :
          par' = [par EXCEPT !.th[c].pc = "gathered", !.th[c].links = n]
    /\ UNCHANGED <<pvars, tvars, avars, resume, clean>>

\* line 83: open(output_file, "a")
ParOpen(c) ==
    /\ par.pc = "running"
    /\ par.th[c].pc = "gathered"
    /\ par' = [par EXCEPT !.th[c].pc = "writing", !.th[c].next = 1,
                          !.th[c].buf = <<>>]
    /\ UNCHANGED <<pvars, tvars, avars, resume, clean>>

\* lines 84-85: f.write of the next link: it goes to the buffer of the file
\* object; a full buffer is first written out, appended to the file
ParWrite(c) ==
    /\ par.pc = "running"
    /\ par.th[c].pc = "writing"
    /\ par.th[c].next <= par.th[c].links
    /\ par' =
         IF Len(par.th[c].buf) = BufferSize
           THEN [par EXCEPT
                   !.file = @ \o par.th[c].buf,
                   !.th[c].buf = <<CategoryLink(c, par.th[c].next)>>,
                   !.th[c].next = @ + 1]
           ELSE [par EXCEPT
                   !.th[c].buf = Append(@, CategoryLink(c, par.th[c].next)),
                   !.th[c].next = @ + 1]
    /\ UNCHANGED <<pvars, tvars, avars, resume, clean>>

\* the with block ends: the file object is closed, its buffer written out
ParClose(c) ==
    /\ par.pc = "running"
    /\ par.th[c].pc = "writing"
    /\ par.th[c].next > par.th[c].links
    /\ par' = [par EXCEPT !.file = @ \o par.th[c].buf,
                          !.th[c].buf = <<>>,
                          !.th[c].pc = "done"]
    /\ UNCHANGED <<pvars, tvars, avars, resume, clean>>

\* lines 178-186: every task has completed; the summary is made
ParFinish ==
    /\ par.pc = "running"
    /\ \A c \in Categories : par.th[c].pc = "done"
    /\ par' = [par EXCEPT !.pc = "done"]
    /\ UNCHANGED <<pvars, tvars, avars, resume, clean>>

NextPar ==
    \/ ParStart
    \/ \E c \in Categories : ParScrape(c)
    \/ \E c \in Categories : ParOpen(c)
    \/ \E c \in Categories : ParWrite(c)
    \/ \E c \in Categories : ParClose(c)
    \/ ParFinish

SpecPar == InitPar /\ [][NextPar]_vars

\* ======================================================== image cleaning pass
\* acozy/clean_image.py: clean_file reads the input file line by line,
\* replaces the <img> tags of the Text and content of each record by image
\* markers, removes the iframes and writes the record to the output file.

\* the lines of the input file
MaxLines == 2

ImgOpen == <<"<", "i", "m", "g">>

LazyAttr == <<"d", "a", "t", "a", "-", "l", "a", "z", "y", "-", "s", "r", "c",
      "=", "\"">>

SrcAttr == <<"s", "r", "c", "=", "\"">>

DataImage == <<"d", "a", "t", "a", ":", "i", "m", "a", "g", "e">>

IframeOpen == <<"<", "i", "f", "r", "a", "m", "e">>

IframeClose == <<"<", "/", "i", "f", "r", "a", "m", "e", ">">>

\* the URLs of the attributes of the tags
LazyUrl == <<"l", ".", "j", "p", "g">>

SrcUrl == <<"s", ".", "j", "p", "g">>

SpacerUrl == <<"d", "a", "t", "a", ":", "i", "m", "a", "g", "e", "/", "g", "i", "f">>

\* name="value"
Attribute(name, value) == name \o value \o <<"\"">>

\* an <img> tag with one or two attributes
Img1(a) == ImgOpen \o <<" ">> \o a \o <<">">>

Img2(a, b) == ImgOpen \o <<" ">> \o a \o <<" ">> \o b \o <<">">>

\* the tags that carry a data-lazy-src and a src, in either order
BothTags ==
    {Img2(Attribute(LazyAttr, LazyUrl), Attribute(SrcAttr, SrcUrl)),
     Img2(Attribute(SrcAttr, SrcUrl), Attribute(LazyAttr, LazyUrl)),
     Img2(Attribute(SrcAttr, SpacerUrl), Attribute(LazyAttr, LazyUrl))}

Tags ==
    BothTags \cup
    {Img1(Attribute(SrcAttr, SrcUrl)),
     Img1(Attribute(LazyAttr, LazyUrl)),
     Img1(Attribute(<<"a", "l", "t", "=", "\"">>, <<"x">>)),
     IframeOpen \o <<">", "x">> \o IframeClose}

\* where the value of the attribute that (?:data-lazy-src|src)=" matches at
\* position k starts, or 0
SrcValueStart(t, k) ==
    IF StartsWithAt(t, k, LazyAttr) THEN k + Len(LazyAttr)
    ELSE IF StartsWithAt(t, k, SrcAttr) THEN k + Len(SrcAttr)
    ELSE 0

\* ([^"]+)" from position v on: the position of the closing quote, or 0
SrcValueClose(t, v, r) == IF v > 0 /\ r > v /\ r <= Len(t) THEN r ELSE 0

SrcValueEnd(t, v) == SrcValueClose(t, v, RunEndBefore(t, v, "\""))

\* (?:data-lazy-src|src)="([^"]+)" matches at position k
SrcMatchesAt(t, k) == SrcValueEnd(t, SrcValueStart(t, k)) > 0

\* group(1) of the match at position k
SrcGroup(t, k) ==
    SubSeq(t, SrcValueStart(t, k), SrcValueEnd(t, SrcValueStart(t, k)) - 1)

\* the marker for url, nothing for a data:image url
MarkerFor(url) ==
    IF StartsWithAt(url, 1, DataImage) THEN <<>> ELSE ImageTag(url)

\* re.search: the leftmost position of M
MarkerAt(t, M) == IF M = {} THEN <<>> ELSE MarkerFor(SrcGroup(t, Min(M)))

\* format_image_tag on the text of a tag
format_image_tag(tag) ==
    MarkerAt(tag, {k \in 1..Len(tag) : SrcMatchesAt(tag, k)})

\* <img[^>]+> matched at position i: the position after the match, or 0
ImgTagClose(t, i, r) ==
    IF r > i + Len(ImgOpen) /\ r <= Len(t) THEN r + 1 ELSE 0

ImgTagEnd(t, i) ==
    IF StartsWithAt(t, i, ImgOpen)
    THEN ImgTagClose(t, i, RunEndBefore(t, i + Len(ImgOpen), ">"))
    ELSE 0

\* <iframe.*?</iframe> (DOTALL) matched at position i
IframeEnd(t, i) ==
    IF StartsWithAt(t, i, IframeOpen)
    THEN (IF \E k \in (i + Len(IframeOpen))..Len(t) :
                 StartsWithAt(t, k, IframeClose)
          THEN Min({k \in (i + Len(IframeOpen))..Len(t) :
                       StartsWithAt(t, k, IframeClose)}) + Len(IframeClose)
          ELSE 0)
    ELSE 0

\* img_tag_regex.sub(format_image_tag, t) from position i
RECURSIVE ImgSubFrom(_, _)
ImgSubAt(t, i, M) ==
    IF M = {} THEN SubSeq(t, i, Len(t))
    ELSE SubSeq(t, i, Min(M) - 1)
           \o format_image_tag(SubSeq(t, Min(M), ImgTagEnd(t, Min(M)) - 1))
           \o ImgSubFrom(t, ImgTagEnd(t, Min(M)))

ImgSubFrom(t, i) == ImgSubAt(t, i, {k \in i..Len(t) : ImgTagEnd(t, k) > 0})

\* iframe_tag_regex.sub('', t) from position i
RECURSIVE IframeSubFrom(_, _)
IframeSubAt(t, i, M) ==
    IF M = {} THEN SubSeq(t, i, Len(t))
    ELSE SubSeq(t, i, Min(M) - 1) \o IframeSubFrom(t, IframeEnd(t, Min(M)))

IframeSubFrom(t, i) ==
    IframeSubAt(t, i, {k \in i..Len(t) : IframeEnd(t, k) > 0})

\* lines 52-55 and 60-61: the two substitutions
CleanedText(t) == IframeSubFrom(ImgSubFrom(t, 1), 1)

\* the content of a record around one tag, and its Text
ContentOf(tag) == <<"a">> \o tag \o <<"b">>

TextOf(tag) == <<"T", "\n">> \o ContentOf(tag)

\* a line of the input file, by what json.loads makes of it: not JSON; a
\* number; a list; an object without Text; a record
RecordOf(tag) ==
    [kind |-> "record", tag |-> tag, Text |-> TextOf(tag),
     content |-> ContentOf(tag)]

OtherLine(k) == [kind |-> k, tag |-> <<>>, Text |-> <<>>, content |-> <<>>]

InputLines ==
    {OtherLine(k) : k \in {"notjson", "number", "list", "object"}}
        \cup {RecordOf(tag) : tag \in Tags}

\* json.loads(line) raises JSONDecodeError
Malformed(line) == line.kind = "notjson"

\* 'Text' in data raises TypeError, which clean_file does not catch
TextTestRaises(line) == line.kind = "number"

\* the line written for input line n
WrittenLine(line, n) ==
    [kind |-> line.kind, tag |-> line.tag, from |-> n,
     Text |-> IF line.kind = "record" THEN CleanedText(line.Text)
              ELSE line.Text,
     content |-> IF line.kind = "record" THEN CleanedText(line.content)
                 ELSE line.content]

InitClean ==
    /\ script = "adventurousmiriam"
    /\ outExists = FALSE
    /\ outFile = <<>>
    /\ RunIdle
    /\ TextOff
    /\ AsmOff
    /\ resume = Off
    /\ par = Off
    /\ \E f \in SeqsUpTo(InputLines, MaxLines),
          old \in {<<>>, <<WrittenLine(OtherLine("object"), 0)>>} :
          clean = [pc |-> "start", input |-> f, output |-> old, pos |-> 1,
                   cleaned_lines |-> 0]

\* lines 42-43: the files are opened, the output for writing
CleanOpen ==
    /\ clean.pc = "start"
    /\ clean' = [clean EXCEPT !.pc = "loop", !.output = <<>>]
    /\ UNCHANGED <<pvars, tvars, avars, resume, par>>

\* lines 45-72: one line of the input: dropped, written, or an exception
\* that leaves clean_file
CleanLine ==
    /\ clean.pc = "loop"
    /\ clean.pos <= Len(clean.input)
    /\ clean' =
         IF Malformed(clean.input[clean.pos])
           THEN [clean EXCEPT !.pos = @ + 1]
         ELSE IF TextTestRaises(clean.input[clean.pos])
           THEN [clean EXCEPT !.pc = "raised"]
         ELSE [clean EXCEPT
                 !.output = Append(@, WrittenLine(clean.input[clean.pos],
                                                  clean.pos)),
                 !.cleaned_lines = @ + 1,
                 !.pos = @ + 1]
    /\ UNCHANGED <<pvars, tvars, avars, resume, par>>

\* lines 74-75: the input is exhausted
CleanDone ==
    /\ clean.pc = "loop"
    /\ clean.pos > Len(clean.input)
    /\ clean' = [clean EXCEPT !.pc = "done"]
    /\ UNCHANGED <<pvars, tvars, avars, resume, par>>

NextClean ==
    \/ CleanOpen
    \/ CleanLine
    \/ CleanDone

SpecClean == InitClean /\ [][NextClean]_vars

\* =================================================================== claims
\* the URLs recorded as meta.data_info.url in a file
RecordedUrls(f) == {f[i].url : i \in {j \in DOMAIN f : f[j].kind = "rec"}}

\* the part of the output file the current run has written
RunLines == SubSeq(outFile, Len(Opened(script, outAtStart)) + 1, Len(outFile))

\* main() is past the dispatch of the current run
Dispatched == pc \in {"collect", "done", "write_crashed"} /\ task # <<>>

\* C1: the output file never contains two records with the same
\* meta.data_info.url, whatever the runs and their input lists.
C1_NoDuplicateUrls ==
    \A i, j \in DOMAIN outFile :
        (i # j /\ outFile[i].kind = "rec" /\ outFile[j].kind = "rec")
            => outFile[i].url # outFile[j].url

\* C2: a run that has ended or is collecting has dispatched exactly the
\* candidate URLs that are not recorded in the output file it started with.
C2_DispatchIsDifference ==
    (pc \in {"collect", "done", "scan_crashed", "write_crashed"}
        /\ (inputFile.exists \/ script = "acozy"))
    => /\ Range(urls_to_scrape)
            = Candidates(script, inputFile) \ RecordedUrls(outAtStart)
       /\ Cardinality(Range(urls_to_scrape)) = Len(urls_to_scrape)

\* C3: every line the output file held when the run started is still
\* there, unchanged and at the same position.
C3_ExistingLinesKept ==
    /\ Len(outAtStart) <= Len(outFile)
    /\ SubSeq(outFile, 1, Len(outAtStart)) = outAtStart

\* C4: at most one unit at a time is inside the append-to-output operation.
C4_OneWriterAtATime == Cardinality(inAppend) <= 1

\* a unit is inside the append while another unit's record is waiting
C4_Witness ==
    \E i, j \in DOMAIN task :
        /\ i # j
        /\ i \in inAppend
        /\ task[j].st = "returned" /\ task[j].res = "rec"

C6_BatchNeverAborts ==
    pc = "write_crashed" => \A i \in DOMAIN task : task[i].st = "consumed"

\* C7: the resume scan never aborts the run, and when it is over the
\* resume set is the set of URLs of the well-formed lines.
C7_ScanSkipsMalformed ==
    /\ pc # "scan_crashed"
    /\ (pc = "read" /\ HasResume(script))
          => scraped_urls = RecordedUrls(outFile)

\* C10: a page whose measured content length is below the configured
\* threshold yields no record; at the threshold and above it yields one.
C10_GateAtThreshold ==
    \A i \in DOMAIN task :
        task[i].page.struct =>
            LET T == min_length(script, task[i].page.recipe) IN
              /\ task[i].page.len = T - 1 => task[i].res = "none"
              /\ task[i].page.len = T
                    => task[i].res \in {"rec", "saved", "failed"}

\* two units of one run were measured at T-1 and at T
C10_Witness ==
    \E i, j \in DOMAIN task :
        /\ task[i].page.struct /\ task[j].page.struct
        /\ task[i].page.len = min_length(script, task[i].page.recipe) - 1
        /\ task[i].res = "none"
        /\ task[j].page.len = min_length(script, task[j].page.recipe)
        /\ task[j].res = "rec"

\* ---------------------------------------------- claims on the text functions
\* the functions with an anonymization step, and the normalizers
Anonymizers == {"anonymize_text_aglugofoil",
                "anonymize_text_adventurousmiriam", "clean_text"}

Normalizers == {"normalize_text_aglugofoil",
                "normalize_text_adventurousmiriam",
                "clean_text", "clean_simple_text"}

\* p occurs in t
Contains(t, p) == \E i \in 1..Len(t) : StartsWithAt(t, i, p)

\* C8: a text that contains image placeholders [image: U] comes back from
\* the anonymization step with every one of them still in it, verbatim.
C8_ImageTagsKept ==
    (tpc = "once" /\ op \in Anonymizers) =>
        /\ out1.ok
        /\ \A n \in DOMAIN FindAll("image", txt) :
              Contains(out1.text, FindAll("image", txt)[n])

\* C9: applying a normalizer to its own output returns that output
\* unchanged.
C9_NormalizerIdempotent ==
    (tpc = "twice" /\ op \in Normalizers) => out2 = out1

\* -------------------------------------------- claims on the record assembly
\* the text without its image placeholders
WithoutImageTags(t) == ReSub("image", <<>>, t)

\* C11: the length compared with the threshold is the length of the
\* normalized body text, the content of the record, with every
\* [image: ...] placeholder removed.
C11_GateMeasuresTextWithoutTags ==
    asm.kind = "rec" =>
        asm.measured = Len(WithoutImageTags(asm.rec.content))

\* C12: the combined text of an emitted record is its title, one line
\* break, its content; and its content is the text that passed the gate
\* (measured as it is or without its image placeholders), not a text
\* made after the gate.
C12_TextIsTitleThenContent ==
    asm.kind = "rec" =>
        /\ asm.rec.Text = asm.rec.title \o <<"\n">> \o asm.rec.content
        /\ asm.gated \in {asm.rec.content, WithoutImageTags(asm.rec.content)}

\* C13: the ID of a record depends on its URL only: an assembly for the
\* same URL with any other title, content and processing date has the
\* same ID.
C13_IdDependsOnUrlOnly ==
    asm.kind = "rec" =>
        \A ti \in Titles, c \in {<<>>, <<"a">>, Filler}, d \in Dates :
            Record(asm.rec.url, ti, c, d).ID = asm.rec.ID

\* a record has been assembled, and another URL, title and date exist
C13_Witness ==
    /\ asm.kind = "rec"
    /\ asm.rec.url = "u2"
    /\ asm.rec.title # <<"T">>
    /\ asm.rec.processing_date = "d2"
    /\ asm.rec.content # Filler

\* --------------------------------------- claims on masking and on whitespace
\* the anonymizers said to keep the length of the text
Masking == {"anonymize_text_adventurousmiriam",
            "anonymize_text_addicted2decorating"}

\* C14: the anonymized text has the same length as the text: every masked
\* email or phone number is replaced by a run of the same length.
C14_LengthPreserved ==
    (tpc = "once" /\ arg = "str" /\ op \in Masking) =>
        /\ out1.ok
        /\ Len(out1.text) = Len(txt)

\* the functions that mask email addresses, and the email pattern of each
EmailMaskers == {"anonymize_text_addicted2decorating",
                 "anonymize_text_afrovitalityeats", "clean_text_bakingbar"}

EmailPatternOf(f) ==
    IF f = "anonymize_text_addicted2decorating"
    THEN "email_addicted2decorating"
    ELSE "email"

\* some substring of t matches pattern re
HasMatch(re, t) == FirstMatch(re, t, 1) # NoSpan

\* C15: the anonymized form of a text that contains an email-shaped
\* substring contains no substring that matches the email pattern.
C15_NoEmailLeft ==
    (/\ tpc = "once" /\ arg = "str" /\ op \in EmailMaskers
     /\ HasMatch(EmailPatternOf(op), txt)
     /\ out1.ok) =>
        ~HasMatch(EmailPatternOf(op), out1.text)

\* the normalizers and anonymizers said never to raise
NeverRaising == {"clean_simple_text", "clean_text_addicted2decorating",
                 "anonymize_text_addicted2decorating",
                 "anonymize_text_aglugofoil"}

\* C16: the normalizer and the anonymizer return a string for every input,
\* a value that is not a string and a text with the literal placeholder token
\* included, and the empty string for an input that is not a string or is
\* empty.
C16_NeverRaises ==
    (tpc = "once" /\ op \in NeverRaising) =>
        /\ out1.ok
        /\ (arg # "str" \/ txt = <<>>) => out1.text = <<>>

\* the normalizers of whitespace
WhitespaceNormalizers == {"normalize_text_adventurousmiriam",
                          "clean_simple_text",
                          "full_content_text_bakefromscratch"}

\* C20: the output of the normalizer has no run of two or more spaces, no
\* two consecutive line breaks, and no leading or trailing whitespace.
C20_WhitespaceNormalized ==
    (tpc = "once" /\ arg = "str" /\ op \in WhitespaceNormalizers
     /\ out1.ok) =>
        /\ ~Contains(out1.text, <<" ", " ">>)
        /\ ~Contains(out1.text, <<"\n", "\n">>)
        /\ out1.text = Strip(out1.text)

\* ------------------------------------------------- claims on the fetch units
\* the unit has ended: its future is done, or its queue item is marked done
TaskEnded(t) == t.st \in {"returned", "raised", "writing", "consumed"}

C18_NoRecordWithoutStructure ==
    \A i \in DOMAIN task :
        (task[i].st = "raised" \/ ~task[i].page.struct) =>
            task[i].res # "rec"

\* -------------------------------------------------- claims on the end of a run
\* main() has returned or has been left by an exception
RunEnded == pc \in {"done", "scan_crashed", "write_crashed"}

\* the script reads an input file, and the one of this run is missing
InputMissing == script # "acozy" /\ ~inputFile.exists

\* the step of main() that finds the input file missing ends the run with
\* nothing dispatched and the output file as it was
MissingInputStops ==
    (pc = "read" /\ InputMissing) =>
        /\ pc' = "done"
        /\ UNCHANGED <<outExists, outFile, task, fetched>>

\* a run that has ended with its input file read has handled every
\* candidate URL
EndedRunProcessedAll ==
    (RunEnded /\ ~InputMissing) =>
        /\ pc = "done"
        /\ \A u \in Candidates(script, inputFile) \ scraped_urls :
              \E i \in DOMAIN task :
                  task[i].url = u /\ task[i].st = "consumed"

\* C19: when the input URL file cannot be opened the run stops before any
\* fetch is dispatched and without creating, truncating or appending to the
\* output file, and a run ends without processing its candidate URLs under
\* this condition only.
C19_OnlyMissingInputStops ==
    [][MissingInputStops]_vars /\ []EndedRunProcessedAll

\* ------------------------------------------- claims on the order of the steps
\* the functions that clean and anonymize, and the replace chain of each
Cleaners == {"clean_text_bakingbar", "clean_text",
             "cleaned_content_adventurousmiriam"}

ChainOf(f) ==
    IF f = "clean_text" THEN Replacements_afamilyfeast
    ELSE Replacements_adventurousmiriam

\* C21: the cleaning steps run in the order punctuation repair, emoji
\* stripping, whitespace collapse, anonymization: the text that comes back
\* is the anonymized form of the text the three earlier steps made of the
\* input.
C21_AnonymizationLast ==
    (tpc = "once" /\ arg = "str" /\ op \in Cleaners) =>
        out1.text = anonymize_text_adventurousmiriam(
                        Normalize(txt, ChainOf(op)))

\* the functions that strip emojis
EmojiStrippers == {"clean_simple_text", "normalize_text_adventurousmiriam"}

\* the text without its emojis and without the space in front of each run
WithoutSpaceAndEmoji(t) == ReSub("emoji_with_space", <<>>, t)

\* t has no space, tab or line break
NoWhitespace(t) == \A k \in DOMAIN t : t[k] \notin SpaceChars

\* C22: a space directly in front of a stripped emoji is removed together
\* with it, whatever follows the emoji: a text whose only whitespace is the
\* space in front of its emojis comes back as it does without the emojis and
\* those spaces.
C22_SpaceGoesWithEmoji ==
    (/\ tpc = "once" /\ arg = "str" /\ op \in EmojiStrippers
     /\ Contains(txt, <<" ", "EMOJI">>)
     /\ NoWhitespace(WithoutSpaceAndEmoji(txt))) =>
        out1 = Call(op, WithoutSpaceAndEmoji(txt))

\* --------------------------------------------- claims on the shape of records
\* C23: every record has exactly the fields of the schema: ID, Text and meta
\* at the top, and in meta.data_info lang, url, source, type,
\* processing_date, delivery_version, title, content and content_info with
\* domain and subdomain.
C23_RecordHasSchemaShape ==
    asm.kind = "rec" => asm.keys = Schema

\* ------------------------------------------------ claims on the run summary
\* C24: when a run that attempted URLs has ended, the counts of its summary
\* account for every dispatched URL once: saved + skipped + errors is the
\* number of URLs attempted, and saved is the number of lines the run
\* appended to the output file.
C24_CountsAccountForEveryUrl ==
    (pc = "done" /\ ReportsCounts(script) /\ task # <<>>) =>
        /\ cnt.scraped + cnt.skipped + cnt.errors = Len(urls_to_scrape)
        /\ cnt.scraped = Len(outFile) - Len(Opened(script, outAtStart))

\* a reporting run ended with one record saved and one URL not saved
C24_Witness ==
    /\ pc = "done" /\ ReportsCounts(script)
    /\ cnt.scraped = 1
    /\ cnt.skipped + cnt.errors = 1

\* ------------------------------------------------- claims on the acozy queue
\* C25: in the queue-based scraper a worker never stops processing a URL it
\* took from the queue without marking it done, whatever raised while the
\* page was opened, routed or scraped; so queue.join() can return.
C25_TakenUrlMarkedDone ==
    script = "acozy" =>
        \A w \in DOMAIN worker :
            worker[w].st = "dead" => task[worker[w].item].st = "consumed"

\* ------------------------------------------------- claims on resume by rerun
\* the URLs that have a record line in the file
WrittenUrls(f) == {u \in URLS : RecordLine(u) \in Range(f)}

\* main() has computed the URLs to scrape and submitted none of them yet
ListComputed == pc \in {"dispatch", "done"} /\ task = <<>>

\* C27: in a script with a resume scan, a URL whose processing ended in skip
\* or error has no record line in the output file, and a later run whose
\* input lists it gets as far as dispatching and dispatches it again; the
\* candidates a run leaves out are URLs with a record in the file.
C27_UnsavedUrlsAreRetried ==
    HasResume(script) =>
        /\ UnsavedAfter(unsaved, task) \cap WrittenUrls(outFile) = {}
        /\ pc = "scan_crashed" => unsaved = {}
        /\ ListComputed =>
             /\ unsaved \cap Candidates(script, inputFile)
                    \subseteq Range(urls_to_scrape)
             /\ Candidates(script, inputFile) \ Range(urls_to_scrape)
                    \subseteq WrittenUrls(outFile)

\* a later run is about to dispatch again a URL that an earlier run skipped
\* or failed on, next to a candidate it leaves out
C27_Witness ==
    /\ script = "adventurousmiriam"
    /\ pc = "dispatch"
    /\ unsaved \cap Range(urls_to_scrape) # {}
    /\ Candidates(script, inputFile) \ Range(urls_to_scrape) # {}

\* ------------------------------------------- claims on the link collectors
\* C26: when the resumable link collector has completed, interrupted and
\* started again or not, the output file holds the links that one
\* uninterrupted run over the same pages collects.
C26_RestartCollectsSameLinks ==
    resume.pc = "complete" =>
        Range(resume.out) = UninterruptedLinks(resume.site, 1, {})

\* C28: in the links file of the parallel category collector the links of
\* one category form one block: between two links of a category there is no
\* link of another category.
C28_CategoryBlocksContiguous ==
    par.pc # "off" =>
        \A i, k \in DOMAIN par.file :
            (i < k /\ par.file[i].category = par.file[k].category) =>
                \A j \in i..k : par.file[j].category = par.file[i].category

\* ----------------------------------------- claims on the image-cleaning pass
\* C29: the record written for a record whose <img> tag carries both a
\* data-lazy-src and a src attribute, in either order, has the image marker
\* of the data-lazy-src URL in the place of the tag.
C29_LazySrcWins ==
    clean.pc # "off" =>
        \A m \in DOMAIN clean.output :
            (clean.output[m].kind = "record"
                /\ clean.output[m].tag \in BothTags) =>
                    clean.output[m].content =
                        <<"a">> \o ImageTag(LazyUrl) \o <<"b">>

\* the numbers of the well-formed lines among the first n of f, in order
WellFormedUpTo(f, n) ==
    SelectSeq([k \in 1..n |-> k], LAMBDA k : ~Malformed(f[k]))

\* C30: when the pass has ended, the output file holds one line for every
\* input line that is well-formed JSON, in input order, and none for the
\* malformed ones.
C30_OneLinePerWellFormedLine ==
    clean.pc \in {"done", "raised"} =>
        [m \in DOMAIN clean.output |-> clean.output[m].from] =
            WellFormedUpTo(clean.input, Len(clean.input))

====
